---------------------------- MODULE Spec2Model ----------------------------
(***************************************************************************)
(* Cluster connection and proxy subsystem of Lens.                         *)
(*                                                                         *)
(*   SpecProxy       KubeAuthProxy (src/src/main/cluster.ts:796-901)       *)
(*   SpecKubeconfig  KubeconfigManager (src/unnamed/part_006)              *)
(*   Spec            Cluster (src/src/main/cluster.ts:89-757)              *)
(*   SpecConnection  Cluster, every outcome of version detection           *)
(*   SpecManager     Cluster constructor (src/src/main/cluster.ts:261-286) *)
(*                   and the WebSocket upgrade of the local proxy          *)
(*                   (src/src/main/proxy/ws-upgrade.ts)                    *)
(*   SpecSweeps      Cluster.getAllowedResources, resource by resource,    *)
(*                   under overlapping calls (cluster.ts:697-730)          *)
(*   SpecHungRemote  Cluster against an API server that may never answer   *)
(*   SpecNamespaces  Cluster.getAllowedNamespaces and its error counter    *)
(*                   (cluster.ts:659-695)                                  *)
(*   SpecBinding     Cluster.bindEvents, activate, disconnect and the two  *)
(*                   timers (cluster.ts:330-423)                           *)
(*   SpecMetadata    Cluster.refreshMetadata (cluster.ts:447-454)          *)
(*   SpecSingleton   Singleton (src/src/common/utils/singleton.ts)         *)
(*   SpecResources   Cluster.isAllowedResource (cluster.ts:732-744)        *)
(*                                                                         *)
(* Every async method is cut at its awaits: one action per synchronous     *)
(* stretch of code between two awaits, so that the interleavings of the    *)
(* node event loop are the interleavings of the actions.                   *)
(***************************************************************************)
EXTENDS Integers, Sequences, FiniteSets, TLC

VARIABLES
    \* ---- KubeAuthProxy ----
    proxyProcess,   \* this.proxyProcess: undefined, null or a ChildProcess
    port,           \* this._port (0: never assigned)
    lastError,      \* this.lastError (0: never assigned, else the child that wrote to stderr)
    alive,          \* child processes spawned by run() and neither killed nor dead
    listened,       \* child processes whose "error"/"exit"/stderr listeners are attached
    portWait,       \* child processes whose stdout carries the getPortFrom listener
    stdoutLog,      \* child processes whose stdout carries the logging listener of run()
    spawned,        \* number of spawn() calls so far
    runs,           \* the run() calls: position, spawned child, outcome
    lastLog,        \* the last sendIpcLogMessage broadcast
    threw,          \* an exit() call or an event handler has thrown
    hist,           \* the last operation on the proxy ("exit2": exit() after exit())
    \* ---- KubeconfigManager ----
    clusterId,      \* cluster.id
    ctxNamespace,   \* namespace of the context in the user's kubeconfig ("": none)
    tempFile,       \* this.tempFile: "null", "undefined" or the path of the temp file
    disk,           \* the temp directory: path -> content of the file, or NoFile
    gp,             \* the getPath() calls: position, outcome
    ul,             \* the unlink() calls: position, outcome
    serverRunning,  \* the ContextHandler holds a started proxy server
    firstContent,   \* content of the first proxy kubeconfig this manager wrote
    \* ---- Cluster ----
    online, accessible, ready, disconnected, failureReason, isAdmin,
    isGlobalWatchEnabled, allowedNamespaces, allowedResources,  \* the ClusterState fields
    accessibleNamespaces,    \* namespaces the user has set in the cluster settings
    activated,               \* this.activated
    resourceAccessStatuses,  \* api resource -> "undefined", "false" or "true"
    getAllowedNamespacesErrorCount,
    eventDisposers,          \* this.eventDisposers.length
    timers,                  \* pairs of interval timers that are set
    tasks,                   \* the activate() and refresh() calls in flight
    pushed,                  \* payload of the last "cluster:state" broadcast: its ready field
    mirror,                  \* the receiving side's copy, written by setState(): its ready field
    fullRun,                 \* a refreshAccessibility() run has gone through all its steps
    lastOp                   \* what the last step did: "disconnect" (disconnect() returned),
                             \* "forbidden" (the namespace-forbidden broadcast was sent),
                             \* "rejected" (an activate() or refresh() call rejected),
                             \* "rebroadcast" (activate() of an activated cluster returned),
                             \* "other"
VARIABLES
    \* ---- Cluster constructor, ClusterManager, local proxy ----
    clusters,            \* ids of the Cluster objects that were constructed
    contextHandlers,     \* ids of the clusters a ContextHandler was created for
    kubeconfigManagers,  \* ids of the clusters a KubeconfigManager was created for
    thrown,              \* what the last constructor call threw ("none": it returned)
    constructs,          \* number of constructor calls so far
    sockets,             \* the WebSocket upgrade requests and their shell sessions
    lastResponse         \* what the last plain HTTP request was answered with
VARIABLES
    \* ---- Cluster: the sweep of the allowed resources, resource by resource ----
    swConfig,            \* apiResources of the cluster, and the namespace lists
                         \* that getAllowedNamespaces() returns for it
    cache,               \* this.resourceAccessStatuses: resource -> "undefined", "false", "true"
    nsList,              \* this.allowedNamespaces
    sweeps               \* the refreshAllowedResources() calls in flight
VARIABLES
    \* ---- Cluster: getAllowedNamespaces(), call by call ----
    errorCount,          \* this.getAllowedNamespacesErrorCount
    attempts,            \* the listings tried since the counter last left 0, oldest first
    lastCall             \* what the last call returned and whether it broadcast
VARIABLES
    \* ---- Cluster: bindEvents(), unbindEvents() and the interval timers ----
    cl,                  \* the fields of the Cluster that activate() and disconnect() go by,
                         \* and the interval timers that are set
    activations,         \* the activate() calls in flight
    timerLog             \* what the last step did, and whether disconnect() has
                         \* returned with no activate() called since
VARIABLES
    \* ---- Cluster: refreshMetadata() ----
    metadata,            \* this.metadata: key -> value, "absent" for a key it has not
    detections,          \* the refreshMetadata() calls in flight
    detected             \* what detectForCluster() returned to the call that settled last
VARIABLES
    \* ---- Singleton ----
    instances,           \* Singleton.instances: class -> its instance, or NoInstance
    creating,            \* Singleton.creating ("": no creation under way)
    pending,             \* the createInstance() call that is inside `new this(...args)`
    serial,              \* number of objects constructed so far
    ret                  \* the last call and how it ended
VARIABLES
    \* ---- isAllowedResource ----
    allowed,             \* this.allowedResources of the cluster that is asked
    asked                \* the last isAllowedResource() call and what it returned

proxyVars == <<proxyProcess, port, lastError, alive, listened, portWait, stdoutLog,
               spawned, runs, lastLog, threw, hist>>

kcFiles == <<clusterId, ctxNamespace, tempFile, disk, gp, ul, firstContent>>

kcVars == <<kcFiles, serverRunning>>

stateVars == <<online, accessible, ready, disconnected, failureReason, isAdmin,
               isGlobalWatchEnabled, allowedNamespaces, allowedResources>>

clusterVars == <<stateVars, accessibleNamespaces, activated, resourceAccessStatuses,
                 getAllowedNamespacesErrorCount, eventDisposers, timers, tasks,
                 pushed, mirror, fullRun, lastOp>>

managerVars == <<clusters, contextHandlers, kubeconfigManagers, thrown, constructs,
                 sockets, lastResponse>>

sweepVars == <<swConfig, cache, nsList, sweeps>>

namespaceVars == <<errorCount, attempts, lastCall>>

bindingVars == <<cl, activations, timerLog>>

metadataVars == <<metadata, detections, detected>>

singletonVars == <<instances, creating, pending, serial, ret>>

\* The components that follow the sweeps
resourceVars == <<allowed, asked>>

laterVars == <<namespaceVars, bindingVars, metadataVars, singletonVars, resourceVars>>

\* The components up to the sweeps
earlierVars == <<proxyVars, kcVars, clusterVars, managerVars, sweepVars>>

\* What the calls of getAllowedNamespaces() leave alone
notNamespaces == <<earlierVars, bindingVars, metadataVars, singletonVars,
                    resourceVars>>

\* What activate(), disconnect() and the timers leave alone, the fields of cl apart
notBinding == <<earlierVars, namespaceVars, metadataVars, singletonVars,
                 resourceVars>>

\* What refreshMetadata() leaves alone
notMetadata == <<earlierVars, namespaceVars, bindingVars, singletonVars,
                  resourceVars>>

\* What the Singleton calls leave alone
notSingleton == <<earlierVars, namespaceVars, bindingVars, metadataVars,
                   resourceVars>>

\* What the isAllowedResource calls leave alone
notResources == <<earlierVars, namespaceVars, bindingVars, metadataVars, singletonVars>>

vars == <<proxyVars, kcVars, clusterVars, managerVars, sweepVars, laterVars>>

-----------------------------------------------------------------------------
(* Bounds *)

\* getPath() calls issued on one KubeconfigManager
MaxGetPath == 2
\* unlink() calls issued on one KubeconfigManager
MaxUnlink == 1
\* activate() and refresh() calls of one Cluster that are in flight together
MaxTasks == 1

\* run() calls issued on one KubeAuthProxy
MaxRuns == 2
\* child processes one KubeAuthProxy may spawn
MaxSpawn == 2

\* refreshAllowedResources() calls of one Cluster that are in flight together
MaxSweeps == 2

\* calls of the Cluster constructor
MaxConstructs == 2
\* WebSocket upgrade requests the local proxy receives
MaxSockets == 1

Runs == 1..MaxRuns
Pids == 1..MaxSpawn

-----------------------------------------------------------------------------
(* KubeAuthProxy *)

\* `protected proxyProcess: ChildProcess;` has no initializer: undefined
Undefined == [k |-> "undefined", pid |-> 0]
Null == [k |-> "null", pid |-> 0]
Proc(p) == [k |-> "proc", pid |-> p]

\* JavaScript truthiness of the handle, as tested by `if (this.proxyProcess)`
Truthy(h) == h.k = "proc"

IdleRun == [pc |-> "idle", proc |-> 0, why |-> "none"]

\* The last operation on the proxy; consecutive exit() calls are counted up to two
Note(h, op) ==
    IF op = "exit" /\ h \in {"exit", "exit2"} THEN "exit2" ELSE op

InitProxy ==
    /\ proxyProcess = Undefined
    /\ port = 0
    /\ lastError = 0
    /\ alive = {}
    /\ listened = {}
    /\ portWait = {}
    /\ stdoutLog = {}
    /\ spawned = 0
    /\ runs = [r \in Runs |-> IdleRun]
    /\ lastLog = "none"
    /\ threw = FALSE
    /\ hist = "new"

\* exit() without its guard: kill() is called on whatever the handle holds
ExitBodyNoGuard(h) ==
    IF Truthy(h)
    THEN [handle |-> Null, killed |-> {h.pid}, threw |-> FALSE]
    ELSE [handle |-> h, killed |-> {}, threw |-> TRUE]

\* exit() that kills the child and detaches the listeners but keeps the handle
ExitBodyKeepHandle(h) ==
    IF ~Truthy(h)
    THEN [handle |-> h, killed |-> {}, threw |-> FALSE]
    ELSE [handle |-> h, killed |-> {h.pid}, threw |-> FALSE]

\* exit(): the effect on the handle h. killed: the children that lose their
\* process and all their listeners; threw: a TypeError on a null handle.
ExitBody(h) ==
    IF ~Truthy(h)
    THEN [handle |-> h, killed |-> {}, threw |-> FALSE]
    ELSE [handle |-> Null, killed |-> {h.pid}, threw |-> FALSE]

\* exit() that kills the child and forgets the handle, and removes no listener
ApplyExitKeepsListeners ==
    LET e == ExitBody(proxyProcess)
    IN /\ proxyProcess' = e.handle
       /\ alive' = alive \ e.killed
       /\ UNCHANGED <<listened, portWait, stdoutLog>>
       /\ threw' = (threw \/ e.threw)

\* The assignments of exit() on the state
ApplyExit ==
    LET e == ExitBody(proxyProcess)
    IN /\ proxyProcess' = e.handle
       /\ alive' = alive \ e.killed
       /\ listened' = listened \ e.killed
       /\ portWait' = portWait \ e.killed
       /\ stdoutLog' = stdoutLog \ e.killed
       /\ threw' = (threw \/ e.threw)

\* exit() called by the owner of the proxy
Exit ==
    /\ ApplyExit
    /\ hist' = Note(hist, "exit")
    /\ UNCHANGED <<port, lastError, spawned, runs, lastLog>>
    /\ UNCHANGED <<kcVars, clusterVars, managerVars, sweepVars, laterVars>>

\* run() up to `await this.kubectl.getPath()`
RunStart(r) ==
    /\ runs[r].pc = "idle"
    /\ \A q \in Runs : q < r => runs[q].pc # "idle"
    /\ runs' = [runs EXCEPT ![r].pc =
                   IF Truthy(proxyProcess) THEN "resolved" ELSE "kubectl",
                            ![r].why =
                   IF Truthy(proxyProcess) THEN "held" ELSE "none"]
    /\ hist' = Note(hist, "run")
    /\ UNCHANGED <<proxyProcess, port, lastError, alive, listened, portWait,
                   stdoutLog, spawned, lastLog, threw>>
    /\ UNCHANGED <<kcVars, clusterVars, managerVars, sweepVars, laterVars>>

\* run() from the spawn to `await getPortFrom(stdout)`: the handle is assigned
\* without looking at it again, the listeners are attached
RunSpawn(r) ==
    /\ runs[r].pc = "kubectl"
    /\ spawned < MaxSpawn
    /\ LET p == spawned + 1
       IN /\ spawned' = p
          /\ proxyProcess' = Proc(p)
          /\ alive' = alive \cup {p}
          /\ listened' = listened \cup {p}
          /\ portWait' = portWait \cup {p}
          /\ runs' = [runs EXCEPT ![r].pc = "banner", ![r].proc = p]
    /\ hist' = Note(hist, "spawn")
    /\ UNCHANGED <<port, lastError, stdoutLog, lastLog, threw>>
    /\ UNCHANGED <<kcVars, clusterVars, managerVars, sweepVars, laterVars>>

\* getPortFrom finds the banner on the child's stdout: _port is assigned, then
\* `this.proxyProcess.stdout.on("data", ...)` and waitUntilUsed
RunBanner(r) ==
    /\ runs[r].pc = "banner"
    /\ runs[r].proc \in alive \cap portWait
    /\ port' = runs[r].proc
    /\ portWait' = portWait \ {runs[r].proc}
    /\ lastLog' = "started"
    /\ IF Truthy(proxyProcess)
       THEN /\ stdoutLog' = stdoutLog \cup {proxyProcess.pid}
            /\ runs' = [runs EXCEPT ![r].pc = "used"]
       ELSE /\ stdoutLog' = stdoutLog
            /\ runs' = [runs EXCEPT ![r].pc = "rejected", ![r].why = "typeError"]
    /\ hist' = Note(hist, "banner")
    /\ UNCHANGED <<proxyProcess, lastError, alive, listened, spawned, threw>>
    /\ UNCHANGED <<kcVars, clusterVars, managerVars, sweepVars, laterVars>>

\* getPortFrom gives up: the banner did not appear in time and run() rejects
RunBannerTimeout(r) ==
    /\ runs[r].pc = "banner"
    /\ portWait' = portWait \ {runs[r].proc}
    /\ runs' = [runs EXCEPT ![r].pc = "rejected", ![r].why = "bannerTimeout"]
    /\ hist' = Note(hist, "bannerTimeout")
    /\ UNCHANGED <<proxyProcess, port, lastError, alive, listened, stdoutLog,
                   spawned, lastLog, threw>>
    /\ UNCHANGED <<kcVars, clusterVars, managerVars, sweepVars, laterVars>>

\* waitUntilUsed(port, 500, 10000) settles
RunUsed(r) ==
    /\ runs[r].pc = "used"
    /\ \E ok \in BOOLEAN :
          runs' = [runs EXCEPT ![r].pc = IF ok THEN "resolved" ELSE "rejected",
                               ![r].why = IF ok THEN "serving" ELSE "portTimeout"]
    /\ hist' = Note(hist, "used")
    /\ UNCHANGED <<proxyProcess, port, lastError, alive, listened, portWait,
                   stdoutLog, spawned, lastLog, threw>>
    /\ UNCHANGED <<kcVars, clusterVars, managerVars, sweepVars, laterVars>>

\* The child p ends (by itself or killed from outside); its "exit" listener,
\* when still attached, broadcasts and calls exit()
ChildExit(p) ==
    /\ p \in alive
    /\ IF p \in listened
       THEN /\ lastLog' = "exit"
            /\ LET e == ExitBody(proxyProcess)
               IN /\ proxyProcess' = e.handle
                  /\ alive' = (alive \ {p}) \ e.killed
                  /\ listened' = listened \ e.killed
                  /\ portWait' = portWait \ e.killed
                  /\ stdoutLog' = stdoutLog \ e.killed
                  /\ threw' = (threw \/ e.threw)
       ELSE /\ alive' = alive \ {p}
            /\ UNCHANGED <<proxyProcess, listened, portWait, stdoutLog, lastLog, threw>>
    /\ hist' = Note(hist, IF p \in listened THEN "childExit" ELSE "orphanExit")
    /\ UNCHANGED <<port, lastError, spawned, runs>>
    /\ UNCHANGED <<kcVars, clusterVars, managerVars, sweepVars, laterVars>>

\* The child p emits "error": the listener broadcasts and calls exit()
ChildError(p) ==
    /\ p \in listened
    /\ lastLog' = "error"
    /\ ApplyExit
    /\ hist' = Note(hist, "childError")
    /\ UNCHANGED <<port, lastError, spawned, runs>>
    /\ UNCHANGED <<kcVars, clusterVars, managerVars, sweepVars, laterVars>>

\* The child p writes to stderr: lastError is overwritten and broadcast
StderrData(p) ==
    /\ p \in alive \cap listened
    /\ lastError' = p
    /\ lastLog' = "stderr"
    /\ hist' = Note(hist, "stderr")
    /\ UNCHANGED <<proxyProcess, port, alive, listened, portWait, stdoutLog,
                   spawned, runs, threw>>
    /\ UNCHANGED <<kcVars, clusterVars, managerVars, sweepVars, laterVars>>

NextProxy ==
    \/ Exit
    \/ \E r \in Runs : RunStart(r)
    \/ \E r \in Runs : RunSpawn(r)
    \/ \E r \in Runs : RunBanner(r)
    \/ \E r \in Runs : RunBannerTimeout(r)
    \/ \E r \in Runs : RunUsed(r)
    \/ \E p \in Pids : ChildExit(p)
    \/ \E p \in Pids : ChildError(p)
    \/ \E p \in Pids : StderrData(p)

-----------------------------------------------------------------------------
(* KubeconfigManager *)

ClusterIds == {"a", "b"}
Namespaces == {"", "dev"}
\* LensProxy.getInstance().port
LensProxyPort == "LensProxy.port"

NoFile == [k |-> "none"]

\* path.join(configDir, `kubeconfig-${id}`)
TempFilePath(id) == "kubeconfig-" \o id
Paths == {TempFilePath(id) : id \in ClusterIds}

\* `!this.tempFile`
Unset(t) == t \in {"null", "undefined"}

\* resolveProxyUrl: `http://127.0.0.1:${LensProxy.getInstance().port}/${this.cluster.id}`
resolveProxyUrl(id) == <<"http://127.0.0.1", LensProxyPort, id>>

\* A createProxyKubeconfig that copies the user of the original kubeconfig,
\* credentials included, under the name "proxy"
ProxyConfigCopiesUser(id, ns) ==
    [k |-> "file",
     mode |-> "0600",
     clusters |-> <<[server |-> resolveProxyUrl(id), skipTLSVerify |-> "undefined"]>>,
     users |-> <<[name |-> "proxy", token |-> "user.token"]>>,
     contexts |-> <<[user |-> "proxy", namespace |-> ns]>>]

\* The file createProxyKubeconfig writes for cluster id whose context has namespace ns
ProxyConfig(id, ns) ==
    [k |-> "file",
     mode |-> "0600",
     clusters |-> <<[server |-> resolveProxyUrl(id), skipTLSVerify |-> "undefined"]>>,
     users |-> <<[name |-> "proxy"]>>,
     contexts |-> <<[user |-> "proxy", namespace |-> ns]>>]

\* A getPath() call: where it is, the path it last read, what it returned, how
\* it got there, whether it called init() (which awaits ensureServer()),
\* whether an unlink() had returned when it was called
IdleGetPath == [pc |-> "idle", arg |-> "null", result |-> "null", how |-> "none",
                ensured |-> FALSE, afterUnlink |-> FALSE]
IdleUnlink == [pc |-> "idle"]

GetPaths == 1..MaxGetPath
Unlinks == 1..MaxUnlink

InitKubeconfig ==
    /\ clusterId \in ClusterIds
    /\ ctxNamespace \in Namespaces
    /\ tempFile = "null"
    /\ disk = [p \in Paths |-> NoFile]
    /\ gp = [c \in GetPaths |-> IdleGetPath]
    /\ ul = [u \in Unlinks |-> IdleUnlink]
    /\ serverRunning = FALSE
    /\ firstContent = NoFile

\* An unlink() call has returned
UnlinkReturned == \E u \in Unlinks : ul[u].pc = "done"

\* getPath() up to its first await: throws when unlinked, calls init() (which
\* calls ensureServer()) when the path is unset, else calls fs.pathExists
GetPathStart(c) ==
    /\ gp[c].pc = "idle"
    /\ \A d \in GetPaths : d < c => gp[d].pc # "idle"
    /\ gp' = [gp EXCEPT ![c].pc = CASE tempFile = "undefined" -> "threw"
                                    [] tempFile = "null" -> "ensure"
                                    [] OTHER -> "exists",
                        ![c].arg = tempFile,
                        ![c].how = IF tempFile = "undefined" THEN "unlinked" ELSE "none",
                        ![c].ensured = (tempFile = "null"),
                        ![c].afterUnlink = UnlinkReturned]
    /\ UNCHANGED <<clusterId, ctxNamespace, tempFile, disk, ul, serverRunning,
                   firstContent>>
    /\ UNCHANGED <<proxyVars, clusterVars, managerVars, sweepVars, laterVars>>

\* init(): contextHandler.ensureServer() settles. A failure is caught and
\* logged by init(), and getPath() goes on to fs.pathExists(this.tempFile)
GetPathEnsure(c) ==
    /\ gp[c].pc = "ensure"
    /\ \E ok \in BOOLEAN :
          IF ok
          THEN /\ serverRunning' = TRUE
               /\ gp' = [gp EXCEPT ![c].pc = "initCreate"]
          ELSE /\ gp' = [gp EXCEPT ![c].pc = "exists", ![c].arg = tempFile]
               /\ UNCHANGED serverRunning
    /\ UNCHANGED <<clusterId, ctxNamespace, tempFile, disk, ul, firstContent>>
    /\ UNCHANGED <<proxyVars, clusterVars, managerVars, sweepVars, laterVars>>

\* createProxyKubeconfig whose write never reaches the disk
WriteProxyKubeconfigLost ==
    /\ tempFile' = TempFilePath(clusterId)
    /\ firstContent' = IF firstContent = NoFile
                       THEN ProxyConfig(clusterId, ctxNamespace)
                       ELSE firstContent
    /\ UNCHANGED disk

\* The file write of createProxyKubeconfig and the assignment of its result
WriteProxyKubeconfig ==
    /\ disk' = [disk EXCEPT ![TempFilePath(clusterId)] = ProxyConfig(clusterId, ctxNamespace)]
    /\ tempFile' = TempFilePath(clusterId)
    /\ firstContent' = IF firstContent = NoFile
                       THEN ProxyConfig(clusterId, ctxNamespace)
                       ELSE firstContent

\* init(): createProxyKubeconfig() settles; a failure is caught and logged
GetPathInitCreate(c) ==
    /\ gp[c].pc = "initCreate"
    /\ \E ok \in BOOLEAN :
          IF ok
          THEN /\ WriteProxyKubeconfig
               /\ gp' = [gp EXCEPT ![c].pc = "exists", ![c].arg = tempFile',
                                   ![c].how = "init"]
          ELSE /\ gp' = [gp EXCEPT ![c].pc = "exists", ![c].arg = tempFile]
               /\ UNCHANGED <<tempFile, disk, firstContent>>
    /\ UNCHANGED <<clusterId, ctxNamespace, ul, serverRunning>>
    /\ UNCHANGED <<proxyVars, clusterVars, managerVars, sweepVars, laterVars>>

\* fs.pathExists(arg) settles: the path returns when the file is there, else
\* createProxyKubeconfig() is called
GetPathExists(c) ==
    /\ gp[c].pc = "exists"
    /\ IF ~Unset(gp[c].arg) /\ disk[gp[c].arg] # NoFile
       THEN gp' = [gp EXCEPT ![c].pc = "done", ![c].result = tempFile,
                             ![c].how = IF gp[c].how = "none" THEN "cached" ELSE gp[c].how]
       ELSE gp' = [gp EXCEPT ![c].pc = "create",
                             ![c].how = CASE Unset(gp[c].arg) -> "late"
                                          [] gp[c].ensured -> "reinit"
                                          [] OTHER -> "heal"]
    /\ UNCHANGED <<clusterId, ctxNamespace, tempFile, disk, ul, serverRunning,
                   firstContent>>
    /\ UNCHANGED <<proxyVars, clusterVars, managerVars, sweepVars, laterVars>>

\* createProxyKubeconfig() of the regeneration settles; a failure is caught and
\* logged, and getPath() returns this.tempFile as it is
GetPathCreate(c) ==
    /\ gp[c].pc = "create"
    /\ \E ok \in BOOLEAN :
          IF ok
          THEN /\ WriteProxyKubeconfig
               /\ gp' = [gp EXCEPT ![c].pc = "done", ![c].result = tempFile',
                                   ![c].how = IF gp[c].how = "heal" THEN "healed" ELSE "created"]
          ELSE /\ gp' = [gp EXCEPT ![c].pc = "done", ![c].result = tempFile,
                                   ![c].how = "writeFailed"]
               /\ UNCHANGED <<tempFile, disk, firstContent>>
    /\ UNCHANGED <<clusterId, ctxNamespace, ul, serverRunning>>
    /\ UNCHANGED <<proxyVars, clusterVars, managerVars, sweepVars, laterVars>>

\* unlink() up to `await fs.unlink(this.tempFile)`; returns at once when the
\* path is unset
UnlinkStart(u) ==
    /\ ul[u].pc = "idle"
    /\ \A v \in Unlinks : v < u => ul[v].pc # "idle"
    /\ ul' = [ul EXCEPT ![u].pc = IF Unset(tempFile) THEN "done" ELSE "unlinking"]
    /\ UNCHANGED <<clusterId, ctxNamespace, tempFile, disk, gp, serverRunning,
                   firstContent>>
    /\ UNCHANGED <<proxyVars, clusterVars, managerVars, sweepVars, laterVars>>

\* fs.unlink settles: it rejects when the file is not there, else the file is
\* gone and the path becomes undefined
UnlinkFinish(u) ==
    /\ ul[u].pc = "unlinking"
    /\ IF disk[TempFilePath(clusterId)] = NoFile
       THEN /\ ul' = [ul EXCEPT ![u].pc = "threw"]
            /\ UNCHANGED <<tempFile, disk>>
       ELSE /\ ul' = [ul EXCEPT ![u].pc = "done"]
            /\ disk' = [disk EXCEPT ![TempFilePath(clusterId)] = NoFile]
            /\ tempFile' = "undefined"
    /\ UNCHANGED <<clusterId, ctxNamespace, gp, serverRunning, firstContent>>
    /\ UNCHANGED <<proxyVars, clusterVars, managerVars, sweepVars, laterVars>>

\* Somebody else removes the temp file
ExternalDelete ==
    /\ disk[TempFilePath(clusterId)] # NoFile
    /\ disk' = [disk EXCEPT ![TempFilePath(clusterId)] = NoFile]
    /\ UNCHANGED <<clusterId, ctxNamespace, tempFile, gp, ul, serverRunning,
                   firstContent>>
    /\ UNCHANGED <<proxyVars, clusterVars, managerVars, sweepVars, laterVars>>

NextKubeconfig ==
    \/ \E c \in GetPaths : GetPathStart(c)
    \/ \E c \in GetPaths : GetPathEnsure(c)
    \/ \E c \in GetPaths : GetPathInitCreate(c)
    \/ \E c \in GetPaths : GetPathExists(c)
    \/ \E c \in GetPaths : GetPathCreate(c)
    \/ \E u \in Unlinks : UnlinkStart(u)
    \/ \E u \in Unlinks : UnlinkFinish(u)
    \/ ExternalDelete

-----------------------------------------------------------------------------
(* Cluster *)

\* enum ClusterStatus
AccessGranted == 2
AccessDenied == 1
Offline == 0

\* The sweep looks at the first namespaces only: allowedNamespaces.slice(0, 10)
SweepNamespaces == 10

\* apiResources (common/rbac), by apiName
ApiResources == {"pods"}

\* What version detection can end in: an answer, an HTTP error with a status
\* code, an error with failed === true (timed out or not), any other error
ProbeResults == {"ok", "http4xx", "http5xx", "timedOut", "failed", "other"}
\* The answers the Cluster is run against: one for each ClusterStatus
ClusterProbes == {res \in ProbeResults : res \in {"ok", "http4xx", "timedOut"}}

\* What a awaited canI() can end in; it rejects when the proxy kubeconfig
\* cannot be had, before its try block
CanIResults == {"allowed", "denied", "throws"}

\* What listing the namespaces can end in
ListResults == {"listed", "http403", "otherError", "throws"}
NamespaceLists == {<<>>, <<"ns1", "ns2">>}

Tasks == 1..MaxTasks

FreeTask == [kind |-> "none", pc |-> "free", ns |-> <<>>, jobs |-> [r \in ApiResources |-> 0]]

\* The status codes an error of version detection is tried with (0: the error
\* has no statusCode)
StatusCodes == {0, 399, 400, 403, 499, 500}

\* How version detection settles: with an answer, or with an error that has a
\* statusCode or not, failed === true or not, timedOut === true or not
VersionDetections ==
    {d \in [answered : BOOLEAN, statusCode : StatusCodes, failed : BOOLEAN,
            timedOut : BOOLEAN] :
        d.answered => (d.statusCode = 0 /\ ~d.failed /\ ~d.timedOut)}

\* The branch of getConnectionStatus() that the settlement d takes
ProbeResult(d) ==
    IF d.answered THEN "ok"
    ELSE IF d.statusCode # 0
    THEN IF d.statusCode >= 400 /\ d.statusCode < 500 THEN "http4xx" ELSE "http5xx"
    ELSE IF d.failed
    THEN IF d.timedOut THEN "timedOut" ELSE "failed"
    ELSE "other"

\* getConnectionStatus() that takes a failure to fetch credentials for an
\* unreachable cluster
ConnectionStatusFailedOffline(res) ==
    CASE res = "ok" -> [status |-> AccessGranted, reason |-> "null"]
      [] res = "http4xx" -> [status |-> AccessDenied, reason |-> "Invalid credentials"]
      [] res = "http5xx" -> [status |-> Offline, reason |-> "error.error || error.message"]
      [] res = "timedOut" -> [status |-> Offline, reason |-> "Connection timed out"]
      [] res = "failed" -> [status |-> Offline, reason |-> "Failed to fetch credentials"]
      [] OTHER -> [status |-> Offline, reason |-> "error.message"]

\* getConnectionStatus() that takes every error with a status code for an
\* unreachable cluster
ConnectionStatus4xxOffline(res) ==
    CASE res = "ok" -> [status |-> AccessGranted, reason |-> "null"]
      [] res = "http4xx" -> [status |-> Offline, reason |-> "error.error || error.message"]
      [] res = "http5xx" -> [status |-> Offline, reason |-> "error.error || error.message"]
      [] res = "timedOut" -> [status |-> Offline, reason |-> "Connection timed out"]
      [] res = "failed" -> [status |-> AccessDenied, reason |-> "Failed to fetch credentials"]
      [] OTHER -> [status |-> Offline, reason |-> "error.message"]

\* getConnectionStatus() that does not tell a timeout from other failures
ConnectionStatusNoTimeout(res) ==
    CASE res = "ok" -> [status |-> AccessGranted, reason |-> "null"]
      [] res = "http4xx" -> [status |-> AccessDenied, reason |-> "Invalid credentials"]
      [] res = "http5xx" -> [status |-> Offline, reason |-> "error.error || error.message"]
      [] res = "timedOut" -> [status |-> AccessDenied, reason |-> "Failed to fetch credentials"]
      [] res = "failed" -> [status |-> AccessDenied, reason |-> "Failed to fetch credentials"]
      [] OTHER -> [status |-> Offline, reason |-> "error.message"]

\* getConnectionStatus() that leaves failureReason alone on success
ConnectionStatusKeepsReason(res) ==
    CASE res = "ok" -> [status |-> AccessGranted, reason |-> failureReason]
      [] res = "http4xx" -> [status |-> AccessDenied, reason |-> "Invalid credentials"]
      [] res = "http5xx" -> [status |-> Offline, reason |-> "error.error || error.message"]
      [] res = "timedOut" -> [status |-> Offline, reason |-> "Connection timed out"]
      [] res = "failed" -> [status |-> AccessDenied, reason |-> "Failed to fetch credentials"]
      [] OTHER -> [status |-> Offline, reason |-> "error.message"]

\* getConnectionStatus(): the status and the failureReason it leaves
ConnectionStatus(res) ==
    CASE res = "ok" -> [status |-> AccessGranted, reason |-> "null"]
      [] res = "http4xx" -> [status |-> AccessDenied, reason |-> "Invalid credentials"]
      [] res = "http5xx" -> [status |-> Offline, reason |-> "error.error || error.message"]
      [] res = "timedOut" -> [status |-> Offline, reason |-> "Connection timed out"]
      [] res = "failed" -> [status |-> AccessDenied, reason |-> "Failed to fetch credentials"]
      [] OTHER -> [status |-> Offline, reason |-> "error.message"]

\* getState() of the given field values
State(on, ac, re, di, fr, ad, gw, ns, rs) ==
    [apiUrl |-> "apiUrl", online |-> on, ready |-> re, disconnected |-> di,
     accessible |-> ac, failureReason |-> fr, isAdmin |-> ad,
     allowedNamespaces |-> ns, allowedResources |-> rs, isGlobalWatchEnabled |-> gw]

getState ==
    State(online, accessible, ready, disconnected, failureReason, isAdmin,
          isGlobalWatchEnabled, allowedNamespaces, allowedResources)

\* list.slice(0, n)
Slice(list, n) == SubSeq(list, 1, IF Len(list) < n THEN Len(list) ELSE n)

InitCluster ==
    /\ online = FALSE
    /\ accessible = FALSE
    /\ ready = FALSE
    /\ disconnected = TRUE
    /\ failureReason = "undefined"
    /\ isAdmin = FALSE
    /\ isGlobalWatchEnabled = FALSE
    /\ allowedNamespaces = <<>>
    /\ allowedResources = {}
    /\ accessibleNamespaces \in {<<>>, <<"ns1">>}
    /\ activated = FALSE
    /\ resourceAccessStatuses = [r \in ApiResources |-> "undefined"]
    /\ getAllowedNamespacesErrorCount = 0
    /\ eventDisposers = 0
    /\ timers = 0
    /\ tasks = [t \in Tasks |-> FreeTask]
    /\ pushed = [ready |-> FALSE]
    /\ mirror = [ready |-> FALSE]
    /\ fullRun = FALSE
    /\ lastOp = "other"

\* pushState() when called (explicit), and the reaction on getState() that
\* bindEvents() installs: it broadcasts whenever a field of the state changes
Push(explicit) ==
    pushed' = IF explicit \/ (eventDisposers > 0 /\ getState' # getState)
              THEN [ready |-> ready']
              ELSE pushed

\* The end of activate() and of refresh(): activate() sets activated, both pushState()
Finish(t) ==
    /\ activated' = (activated \/ tasks[t].kind = "activate")

\* The tail of refreshAllowedResources() and of refreshAccessibility() once
\* getAllowedResources() has returned rs
ResourcesDone(t, rs) ==
    /\ allowedResources' = rs
    /\ ready' = TRUE
    /\ fullRun' = (fullRun \/ tasks[t].pc \in {"watch", "namespaces", "sweep"})
    /\ Finish(t)

\* The resources that the statuses st record as allowed
Allowed(st) == {r \in ApiResources : st[r] = "true"}

\* refreshAllowedResources() that marks the cluster ready before the sweep
\* of getAllowedResources() has returned
StartSweepReadyEarly(t, ns) ==
    /\ allowedNamespaces' = ns
    /\ LET todo == {r \in ApiResources : resourceAccessStatuses[r] = "undefined"}
       IN IF ns = <<>>
          THEN /\ ResourcesDone(t, {})
               /\ tasks' = [tasks EXCEPT ![t] = FreeTask]
          ELSE IF todo = {}
          THEN /\ ResourcesDone(t, Allowed(resourceAccessStatuses))
               /\ tasks' = [tasks EXCEPT ![t] = FreeTask]
          ELSE /\ tasks' = [tasks EXCEPT ![t].pc = "sweep",
                                         ![t].ns = Slice(ns, SweepNamespaces),
                                         ![t].jobs = [r \in ApiResources |->
                                                        IF r \in todo THEN 1 ELSE 0]]
               /\ ready' = TRUE
               /\ UNCHANGED <<allowedResources, fullRun, activated>>
    /\ UNCHANGED resourceAccessStatuses

\* refreshAllowedResources() whose getAllowedResources() has no check for an
\* empty list of namespaces: its loops run over no namespace, and it returns
\* the resources that earlier sweeps recorded as allowed
StartSweepNoEmptyCheck(t, ns) ==
    /\ allowedNamespaces' = ns
    /\ LET todo == {r \in ApiResources : resourceAccessStatuses[r] = "undefined"}
       IN IF ns = <<>> \/ todo = {}
          THEN /\ ResourcesDone(t, Allowed(resourceAccessStatuses))
               /\ tasks' = [tasks EXCEPT ![t] = FreeTask]
          ELSE /\ tasks' = [tasks EXCEPT ![t].pc = "sweep",
                                         ![t].ns = Slice(ns, SweepNamespaces),
                                         ![t].jobs = [r \in ApiResources |->
                                                        IF r \in todo THEN 1 ELSE 0]]
               /\ UNCHANGED <<allowedResources, ready, fullRun, activated>>
    /\ UNCHANGED resourceAccessStatuses

\* refreshAllowedResources() that starts the sweep before it has stored the
\* namespaces: the sweep runs over the list of the run before
StartSweepBeforeStore(t, ns) ==
    /\ allowedNamespaces' = ns
    /\ LET todo == {r \in ApiResources : resourceAccessStatuses[r] = "undefined"}
       IN IF allowedNamespaces = <<>>
          THEN /\ ResourcesDone(t, {})
               /\ tasks' = [tasks EXCEPT ![t] = FreeTask]
          ELSE IF todo = {}
          THEN /\ ResourcesDone(t, Allowed(resourceAccessStatuses))
               /\ tasks' = [tasks EXCEPT ![t] = FreeTask]
          ELSE /\ tasks' = [tasks EXCEPT ![t].pc = "sweep",
                                         ![t].ns = Slice(allowedNamespaces, SweepNamespaces),
                                         ![t].jobs = [r \in ApiResources |->
                                                        IF r \in todo THEN 1 ELSE 0]]
               /\ UNCHANGED <<allowedResources, ready, fullRun, activated>>
    /\ UNCHANGED resourceAccessStatuses

\* refreshAllowedResources() from the return of getAllowedNamespaces() (ns)
\* to the first await of getAllowedResources(), or to the end of the caller
\* when the sweep has nothing to wait for
StartSweep(t, ns) ==
    /\ allowedNamespaces' = ns
    /\ LET todo == {r \in ApiResources : resourceAccessStatuses[r] = "undefined"}
       IN IF ns = <<>>
          THEN /\ ResourcesDone(t, {})
               /\ tasks' = [tasks EXCEPT ![t] = FreeTask]
          ELSE IF todo = {}
          THEN /\ ResourcesDone(t, Allowed(resourceAccessStatuses))
               /\ tasks' = [tasks EXCEPT ![t] = FreeTask]
          ELSE /\ tasks' = [tasks EXCEPT ![t].pc = "sweep",
                                         ![t].ns = Slice(ns, SweepNamespaces),
                                         ![t].jobs = [r \in ApiResources |->
                                                        IF r \in todo THEN 1 ELSE 0]]
               /\ UNCHANGED <<allowedResources, ready, fullRun, activated>>
    /\ UNCHANGED resourceAccessStatuses

\* What no operation of the Cluster writes
clusterEnv == <<proxyVars, kcFiles, accessibleNamespaces, managerVars, sweepVars, laterVars>>

\* activate(force) that does not look at this.activated
ActivateAlways(t, force) ==
    /\ tasks[t].pc = "free"
    /\ \A q \in Tasks : q < t => tasks[q].pc # "free"
    /\ eventDisposers' = IF eventDisposers = 0 THEN 3 ELSE eventDisposers
    /\ timers' = IF eventDisposers = 0 THEN timers + 1 ELSE timers
    /\ serverRunning' = IF disconnected \/ ~accessible THEN FALSE ELSE serverRunning
    /\ tasks' = [tasks EXCEPT ![t].kind = "activate",
                              ![t].pc = IF disconnected \/ ~accessible
                                        THEN "reconnect" ELSE "probe"]
    /\ lastOp' = IF activated /\ ~force THEN "rebroadcast" ELSE "other"
    /\ UNCHANGED <<stateVars, activated, resourceAccessStatuses, pushed,
                   getAllowedNamespacesErrorCount, mirror, fullRun, clusterEnv>>

\* activate(force) up to its first await: only a broadcast when activated
\* already, else bindEvents() (once) and reconnect() or the connection probe
Activate(t, force) ==
    /\ tasks[t].pc = "free"
    /\ \A q \in Tasks : q < t => tasks[q].pc # "free"
    /\ IF activated /\ ~force
       THEN /\ pushed' = [ready |-> ready]
            /\ lastOp' = "rebroadcast"
            /\ UNCHANGED <<eventDisposers, timers, serverRunning, tasks>>
       ELSE /\ eventDisposers' = IF eventDisposers = 0 THEN 3 ELSE eventDisposers
            /\ timers' = IF eventDisposers = 0 THEN timers + 1 ELSE timers
            /\ serverRunning' = IF disconnected \/ ~accessible THEN FALSE ELSE serverRunning
            /\ tasks' = [tasks EXCEPT ![t].kind = "activate",
                                      ![t].pc = IF disconnected \/ ~accessible
                                                THEN "reconnect" ELSE "probe"]
            /\ lastOp' = "other"
            /\ UNCHANGED pushed
    /\ UNCHANGED <<stateVars, activated, resourceAccessStatuses,
                   getAllowedNamespacesErrorCount, mirror, fullRun, clusterEnv>>

\* reconnect() that clears disconnected before it awaits ensureServer()
ReconnectedClearsFirst(t) ==
    /\ tasks[t].pc = "reconnect"
    /\ disconnected' = FALSE
    /\ \E ok \in BOOLEAN :
          IF ok
          THEN /\ serverRunning' = TRUE
               /\ tasks' = [tasks EXCEPT ![t].pc = "probe"]
               /\ lastOp' = "other"
          ELSE /\ tasks' = [tasks EXCEPT ![t] = FreeTask]
               /\ lastOp' = "rejected"
               /\ UNCHANGED serverRunning
    /\ UNCHANGED <<online, accessible, ready, failureReason, isAdmin,
                   isGlobalWatchEnabled, allowedNamespaces, allowedResources,
                   activated, resourceAccessStatuses, getAllowedNamespacesErrorCount,
                   eventDisposers, timers, mirror, fullRun, clusterEnv>>
    /\ Push(FALSE)

\* reconnect(): contextHandler.ensureServer() settles; disconnected is cleared
\* when it succeeded, activate() rejects when it failed
Reconnected(t) ==
    /\ tasks[t].pc = "reconnect"
    /\ \E ok \in BOOLEAN :
          IF ok
          THEN /\ serverRunning' = TRUE
               /\ disconnected' = FALSE
               /\ tasks' = [tasks EXCEPT ![t].pc = "probe"]
               /\ lastOp' = "other"
          ELSE /\ tasks' = [tasks EXCEPT ![t] = FreeTask]
               /\ lastOp' = "rejected"
               /\ UNCHANGED <<serverRunning, disconnected>>
    /\ UNCHANGED <<online, accessible, ready, failureReason, isAdmin,
                   isGlobalWatchEnabled, allowedNamespaces, allowedResources,
                   activated, resourceAccessStatuses, getAllowedNamespacesErrorCount,
                   eventDisposers, timers, mirror, fullRun, clusterEnv>>
    /\ Push(FALSE)

\* refresh(opts) up to its first await, called on demand
Refresh(t) ==
    /\ tasks[t].pc = "free"
    /\ \A q \in Tasks : q < t => tasks[q].pc # "free"
    /\ tasks' = [tasks EXCEPT ![t].kind = "refresh", ![t].pc = "probe"]
    /\ lastOp' = "other"
    /\ UNCHANGED <<stateVars, activated, resourceAccessStatuses,
                   getAllowedNamespacesErrorCount, eventDisposers, timers, pushed,
                   mirror, fullRun, serverRunning, clusterEnv>>

\* The 30 s interval timer of bindEvents(): `!this.disconnected && this.refresh()`
RefreshTimer(t) ==
    /\ timers > 0
    /\ ~disconnected
    /\ tasks[t].pc = "free"
    /\ \A q \in Tasks : q < t => tasks[q].pc # "free"
    /\ tasks' = [tasks EXCEPT ![t].kind = "refresh", ![t].pc = "probe"]
    /\ lastOp' = "other"
    /\ UNCHANGED <<stateVars, activated, resourceAccessStatuses,
                   getAllowedNamespacesErrorCount, eventDisposers, timers, pushed,
                   mirror, fullRun, serverRunning, clusterEnv>>

\* refreshConnectionStatus(): version detection settles with res. online and accessible
\* are assigned; the caller goes on to refreshAccessibility() when accessible
\* and ends (activated, pushState) when not
refreshConnectionStatus(t, res) ==
    /\ tasks[t].pc = "probe"
    /\ LET cs == ConnectionStatus(res)
       IN /\ failureReason' = cs.reason
          /\ online' = (cs.status > Offline)
          /\ accessible' = (cs.status = AccessGranted)
          /\ IF cs.status = AccessGranted
             THEN /\ tasks' = [tasks EXCEPT ![t].pc = "admin"]
                  /\ UNCHANGED activated
             ELSE /\ tasks' = [tasks EXCEPT ![t] = FreeTask]
                  /\ Finish(t)
    /\ lastOp' = "other"
    /\ UNCHANGED <<ready, disconnected, isAdmin, isGlobalWatchEnabled,
                   allowedNamespaces, allowedResources, resourceAccessStatuses,
                   getAllowedNamespacesErrorCount, eventDisposers, timers, mirror,
                   fullRun, serverRunning, clusterEnv>>
    /\ Push(tasks'[t].pc = "free")

\* Version detection settles in one of the ways the Cluster is run against
Probed(t) == \E res \in ClusterProbes : refreshConnectionStatus(t, res)

\* Version detection settles in any way: with an answer or with any error
ProbedAny(t) ==
    \E res \in {ProbeResult(d) : d \in VersionDetections} : refreshConnectionStatus(t, res)

\* refreshAccessibility(): isClusterAdmin() settles
AdminProbed(t) ==
    /\ tasks[t].pc = "admin"
    /\ \E res \in CanIResults :
          IF res = "throws"
          THEN /\ tasks' = [tasks EXCEPT ![t] = FreeTask]
               /\ lastOp' = "rejected"
               /\ UNCHANGED isAdmin
          ELSE /\ tasks' = [tasks EXCEPT ![t].pc = "watch"]
               /\ lastOp' = "other"
               /\ isAdmin' = (res = "allowed")
    /\ UNCHANGED <<online, accessible, ready, disconnected, failureReason,
                   isGlobalWatchEnabled, allowedNamespaces, allowedResources,
                   activated, resourceAccessStatuses, getAllowedNamespacesErrorCount,
                   eventDisposers, timers, mirror, fullRun, serverRunning, clusterEnv>>
    /\ Push(FALSE)

\* refreshAccessibility(): canUseWatchApi() settles; getAllowedNamespaces()
\* returns the user's namespaces when there are some, else lists them
WatchProbed(t) ==
    /\ tasks[t].pc = "watch"
    /\ UNCHANGED <<online, accessible, disconnected, failureReason, isAdmin,
                   getAllowedNamespacesErrorCount, eventDisposers, timers, mirror,
                   serverRunning, clusterEnv>>
    /\ \E res \in CanIResults :
          IF res = "throws"
          THEN /\ tasks' = [tasks EXCEPT ![t] = FreeTask]
               /\ lastOp' = "rejected"
               /\ UNCHANGED <<isGlobalWatchEnabled, allowedNamespaces, allowedResources,
                              ready, fullRun, activated, resourceAccessStatuses>>
               /\ Push(FALSE)
          ELSE /\ isGlobalWatchEnabled' = (res = "allowed")
               /\ lastOp' = "other"
               /\ IF accessibleNamespaces # <<>>
                  THEN StartSweep(t, accessibleNamespaces)
                  ELSE /\ tasks' = [tasks EXCEPT ![t].pc = "namespaces"]
                       /\ UNCHANGED <<allowedNamespaces, allowedResources, ready,
                                      fullRun, activated, resourceAccessStatuses>>
               /\ Push(tasks'[t].pc = "free")

\* [ctx.namespace].filter(Boolean)
ContextNamespaces == IF ctxNamespace = "" THEN <<>> ELSE <<ctxNamespace>>

\* getAllowedNamespaces(): api.listNamespace() settles. A failure falls back to
\* the namespace of the context; a 403 with no such namespace is counted, and
\* broadcast when the count passes 3 (lastOp = "forbidden")
NamespacesListed(t) ==
    /\ tasks[t].pc = "namespaces"
    /\ UNCHANGED <<online, accessible, disconnected, failureReason, isAdmin,
                   isGlobalWatchEnabled, eventDisposers, timers, mirror,
                   serverRunning, clusterEnv>>
    /\ \E res \in ListResults, list \in NamespaceLists :
          CASE res = "throws" ->
                 /\ list = <<>>
                 /\ tasks' = [tasks EXCEPT ![t] = FreeTask]
                 /\ UNCHANGED <<allowedNamespaces, allowedResources, ready, fullRun,
                                activated, resourceAccessStatuses,
                                getAllowedNamespacesErrorCount>>
                 /\ lastOp' = "rejected"
                 /\ Push(FALSE)
            [] res = "listed" ->
                 /\ getAllowedNamespacesErrorCount' = 0
                 /\ lastOp' = "other"
                 /\ StartSweep(t, list)
                 /\ Push(tasks'[t].pc = "free")
            [] OTHER ->
                 /\ list = <<>>
                 /\ IF ContextNamespaces = <<>> /\ res = "http403"
                    THEN IF getAllowedNamespacesErrorCount + 1 > 3
                         THEN /\ getAllowedNamespacesErrorCount' = 0
                              /\ lastOp' = "forbidden"
                         ELSE /\ getAllowedNamespacesErrorCount' =
                                     getAllowedNamespacesErrorCount + 1
                              /\ lastOp' = "other"
                    ELSE /\ UNCHANGED getAllowedNamespacesErrorCount
                         /\ lastOp' = "other"
                 /\ StartSweep(t, ContextNamespaces)
                 /\ Push(tasks'[t].pc = "free")

\* getAllowedResources(): the canI() of resource r for the namespace its job
\* is at settles. The result is stored; the job goes to the next namespace
\* unless the resource is allowed now. A canI() that rejects ends the sweep
\* with [], the other jobs still running; the last job to end ends the sweep
\* with the resources recorded as allowed
CanIReturned(t, r) ==
    /\ tasks[t].pc \in {"sweep", "zombie"}
    /\ tasks[t].jobs[r] > 0
    /\ \E res \in CanIResults :
          LET idx == tasks[t].jobs[r]
              st == IF res = "throws"
                    THEN resourceAccessStatuses
                    ELSE [resourceAccessStatuses EXCEPT
                            ![r] = IF res = "allowed" THEN "true" ELSE "false"]
              jobs == [tasks[t].jobs EXCEPT
                         ![r] = IF res # "denied" \/ idx = Len(tasks[t].ns)
                                THEN 0 ELSE idx + 1]
              allDone == \A q \in ApiResources : jobs[q] = 0
              rest == IF allDone THEN FreeTask
                      ELSE [tasks[t] EXCEPT !.pc = "zombie", !.jobs = jobs]
          IN /\ resourceAccessStatuses' = st
             /\ IF tasks[t].pc = "zombie"
                THEN /\ tasks' = [tasks EXCEPT ![t] = rest]
                     /\ UNCHANGED <<allowedResources, ready, fullRun, activated>>
                ELSE IF res = "throws"
                THEN /\ tasks' = [tasks EXCEPT ![t] = rest]
                     /\ ResourcesDone(t, {})
                ELSE IF allDone
                THEN /\ tasks' = [tasks EXCEPT ![t] = FreeTask]
                     /\ ResourcesDone(t, Allowed(st))
                ELSE /\ tasks' = [tasks EXCEPT ![t].jobs = jobs]
                     /\ UNCHANGED <<allowedResources, ready, fullRun, activated>>
    /\ lastOp' = "other"
    /\ UNCHANGED <<online, accessible, disconnected, failureReason, isAdmin,
                   isGlobalWatchEnabled, allowedNamespaces,
                   getAllowedNamespacesErrorCount, eventDisposers, timers, mirror,
                   serverRunning, clusterEnv>>
    /\ Push(tasks[t].pc = "sweep" /\ tasks'[t].pc # "sweep")

\* disconnect() that resets online and leaves accessible as it was
DisconnectKeepsAccessible ==
    /\ eventDisposers' = 0
    /\ timers' = 0
    /\ serverRunning' = FALSE
    /\ disconnected' = TRUE
    /\ online' = FALSE
    /\ ready' = FALSE
    /\ activated' = FALSE
    /\ allowedNamespaces' = <<>>
    /\ resourceAccessStatuses' = [r \in ApiResources |-> "undefined"]
    /\ lastOp' = "disconnect"
    /\ UNCHANGED <<accessible, failureReason, isAdmin, isGlobalWatchEnabled,
                   allowedResources, getAllowedNamespacesErrorCount, tasks, mirror,
                   fullRun, clusterEnv>>
    /\ Push(TRUE)

\* disconnect() that forgets to reset ready
DisconnectKeepsReady ==
    /\ eventDisposers' = 0
    /\ timers' = 0
    /\ serverRunning' = FALSE
    /\ disconnected' = TRUE
    /\ online' = FALSE
    /\ accessible' = FALSE
    /\ activated' = FALSE
    /\ allowedNamespaces' = <<>>
    /\ resourceAccessStatuses' = [r \in ApiResources |-> "undefined"]
    /\ lastOp' = "disconnect"
    /\ UNCHANGED <<ready, failureReason, isAdmin, isGlobalWatchEnabled, allowedResources,
                   getAllowedNamespacesErrorCount, tasks, mirror, fullRun, clusterEnv>>
    /\ Push(TRUE)

\* disconnect(): synchronous. unbindEvents(), stopServer(), the resets, pushState()
Disconnect ==
    /\ eventDisposers' = 0
    /\ timers' = 0
    /\ serverRunning' = FALSE
    /\ disconnected' = TRUE
    /\ online' = FALSE
    /\ accessible' = FALSE
    /\ ready' = FALSE
    /\ activated' = FALSE
    /\ allowedNamespaces' = <<>>
    /\ resourceAccessStatuses' = [r \in ApiResources |-> "undefined"]
    /\ lastOp' = "disconnect"
    /\ UNCHANGED <<failureReason, isAdmin, isGlobalWatchEnabled, allowedResources,
                   getAllowedNamespacesErrorCount, tasks, mirror, fullRun, clusterEnv>>
    /\ Push(TRUE)

\* setState(state) on the receiving side of "cluster:state": Object.assign
\* of the broadcast payload
SetState ==
    /\ mirror.ready # pushed.ready
    /\ mirror' = [mirror EXCEPT !.ready = pushed.ready]
    /\ lastOp' = "other"
    /\ UNCHANGED <<stateVars, activated, resourceAccessStatuses,
                   getAllowedNamespacesErrorCount, eventDisposers, timers, tasks,
                   pushed, fullRun, serverRunning, clusterEnv>>

NextCluster ==
    \/ \E t \in Tasks, force \in BOOLEAN : Activate(t, force)
    \/ \E t \in Tasks : Reconnected(t)
    \/ \E t \in Tasks : Refresh(t)
    \/ \E t \in Tasks : RefreshTimer(t)
    \/ \E t \in Tasks : Probed(t)
    \/ \E t \in Tasks : AdminProbed(t)
    \/ \E t \in Tasks : WatchProbed(t)
    \/ \E t \in Tasks : NamespacesListed(t)
    \/ \E t \in Tasks, r \in ApiResources : CanIReturned(t, r)
    \/ Disconnect
    \/ SetState

-----------------------------------------------------------------------------
(* Cluster constructor, ClusterManager and the WebSocket upgrade *)

\* The cluster ids a request names in its path: those of the clusters and one
\* that no cluster has
RequestIds == ClusterIds \cup {"missing-id"}

ContextNames == {"ctx1", "ctx2"}

\* What loadConfigFromFileSync() gives: the contexts of the kubeconfig file
KubeConfigs == {{}, {"ctx1"}}

Sockets == 1..MaxSockets

NoSocket == [state |-> "none", id |-> "none", node |-> FALSE, shell |-> "none",
             cluster |-> "none", opened |-> FALSE]

InitManager ==
    /\ clusters = {}
    /\ contextHandlers = {}
    /\ kubeconfigManagers = {}
    /\ thrown = "none"
    /\ constructs = 0
    /\ sockets = [k \in Sockets |-> NoSocket]
    /\ lastResponse = [id |-> "none", forwardedTo |-> "none", error |-> FALSE]

\* validateKubeConfig(config, contextName): an error when the kubeconfig has
\* no such context, undefined when it has
validateKubeConfig(config, contextName) ==
    IF contextName \in config THEN "undefined" ELSE "validationError"

\* A constructor that creates the ContextHandler and the KubeconfigManager
\* before it validates the kubeconfig
ConstructHandlersFirst(id, contextName, config, ipcMain) ==
    /\ constructs < MaxConstructs
    /\ constructs' = constructs + 1
    /\ contextHandlers' = IF ipcMain THEN contextHandlers \cup {id} ELSE contextHandlers
    /\ kubeconfigManagers' = IF ipcMain THEN kubeconfigManagers \cup {id}
                                       ELSE kubeconfigManagers
    /\ LET validationError == validateKubeConfig(config, contextName)
       IN IF validationError # "undefined"
          THEN /\ thrown' = validationError
               /\ UNCHANGED clusters
          ELSE /\ thrown' = "none"
               /\ clusters' = clusters \cup {id}
    /\ UNCHANGED <<sockets, lastResponse, proxyVars, kcVars, clusterVars, sweepVars, laterVars>>

\* new Cluster(model): the kubeconfig is loaded and validated for the context
\* of the model; a validation error is thrown, else the ContextHandler and the
\* KubeconfigManager are created (in the main process only)
Construct(id, contextName, config, ipcMain) ==
    /\ constructs < MaxConstructs
    /\ constructs' = constructs + 1
    /\ LET validationError == validateKubeConfig(config, contextName)
       IN IF validationError # "undefined"
          THEN /\ thrown' = validationError
               /\ UNCHANGED <<clusters, contextHandlers, kubeconfigManagers>>
          ELSE /\ thrown' = "none"
               /\ clusters' = clusters \cup {id}
               /\ contextHandlers' = IF ipcMain THEN contextHandlers \cup {id}
                                                ELSE contextHandlers
               /\ kubeconfigManagers' = IF ipcMain THEN kubeconfigManagers \cup {id}
                                                   ELSE kubeconfigManagers
    /\ UNCHANGED <<sockets, lastResponse, proxyVars, kcVars, clusterVars, sweepVars, laterVars>>

\* ClusterManager.getClusterForRequest(req): the cluster whose id the request
\* names, none when no cluster has that id
getClusterForRequest(id) == IF id \in clusters THEN id ELSE "undefined"

\* handleWsUpgrade(req, socket, head): a WebSocket server is created and the
\* upgrade handed to it, whatever the request names
handleWsUpgrade(k, id, node) ==
    /\ sockets[k].state = "none"
    /\ \A q \in Sockets : q < k => sockets[q].state # "none"
    /\ sockets' = [sockets EXCEPT ![k] = [NoSocket EXCEPT !.state = "upgraded",
                                                          !.id = id, !.node = node]]
    /\ UNCHANGED <<clusters, contextHandlers, kubeconfigManagers, thrown, constructs,
                   lastResponse, proxyVars, kcVars, clusterVars, sweepVars, laterVars>>

\* The "connection" listener of createWsListener(), run once the upgrade is
\* done: the cluster is looked up, a shell session is created with what the
\* lookup gave and opened. A lookup that throws leaves the listener
\* before the session is created, the socket upgraded
WsConnection(k) ==
    /\ sockets[k].state = "upgraded"
    /\ \E lookup \in {"returns", "throws"} :
          LET cluster == getClusterForRequest(sockets[k].id)
          IN /\ lookup = "throws" => cluster = "undefined"
             /\ sockets' = [sockets EXCEPT ![k] =
                   IF lookup = "throws"
                   THEN [@ EXCEPT !.state = "uncaught"]
                   ELSE [@ EXCEPT !.state = "connected",
                                  !.shell = IF sockets[k].node THEN "NodeShellSession"
                                                             ELSE "LocalShellSession",
                                  !.cluster = cluster,
                                  !.opened = TRUE]]
    /\ UNCHANGED <<clusters, contextHandlers, kubeconfigManagers, thrown, constructs,
                   lastResponse, proxyVars, kcVars, clusterVars, sweepVars, laterVars>>

\* A plain HTTP request to the local proxy: forwarded to the proxy of the
\* cluster its path names, answered with an error when no cluster has the id
HandleRequest(id) ==
    /\ LET cluster == getClusterForRequest(id)
       IN lastResponse' = [id |-> id,
                           forwardedTo |-> IF cluster = "undefined" THEN "none" ELSE cluster,
                           error |-> cluster = "undefined"]
    /\ UNCHANGED <<clusters, contextHandlers, kubeconfigManagers, thrown, constructs,
                   sockets, proxyVars, kcVars, clusterVars, sweepVars, laterVars>>

NextManager ==
    \/ \E id \in ClusterIds, contextName \in ContextNames, config \in KubeConfigs,
          ipcMain \in BOOLEAN : Construct(id, contextName, config, ipcMain)
    \/ \E k \in Sockets, id \in RequestIds, node \in BOOLEAN : handleWsUpgrade(k, id, node)
    \/ \E k \in Sockets : WsConnection(k)
    \/ \E id \in RequestIds : HandleRequest(id)

-----------------------------------------------------------------------------
(* Cluster: the sweep of getAllowedResources(), resource by resource *)

\* plimit(5): the checks of one getAllowedResources() call that run together
ApiLimit == 5

\* The list of n namespaces, each named by its place in the list
NamespaceList(n) == [i \in 1..n |-> i]

\* A cluster with one api resource, whose namespaces are none, a few, or more
\* than a sweep looks at
OneResource ==
    [apiResources |-> {"pods"},
     lists |-> {NamespaceList(0), NamespaceList(2), NamespaceList(SweepNamespaces + 1)}]

\* A cluster with several api resources and one namespace
SeveralResources ==
    [apiResources |-> {"pods", "nodes", "secrets"}, lists |-> {NamespaceList(1)}]

SweepConfigs == {OneResource, SeveralResources}

\* Every api resource and every namespace list of these clusters
SweepResources == UNION {c.apiResources : c \in SweepConfigs}
SweepLists == UNION {c.lists : c \in SweepConfigs}

Sweeps == 1..MaxSweeps

\* A getAllowedResources() call: where it is ("free", "running", or "caught":
\* it has returned [] from its catch while requests of it are in flight), the
\* namespaces its requests go over, the place in them of the canI() that each
\* request awaits (0: none), whether disconnect() was called since it started
NoSweep == [pc |-> "free", ns |-> <<>>, jobs |-> [r \in swConfig.apiResources |-> 0],
            stale |-> FALSE]

InitSweeps ==
    /\ swConfig \in SweepConfigs
    /\ cache = [r \in swConfig.apiResources |-> "undefined"]
    /\ nsList = <<>>
    /\ sweeps = [s \in Sweeps |-> NoSweep]

\* The number of canI() calls of the sweeps that are in flight
InFlight(sw) ==
    LET count[k \in 0..MaxSweeps] ==
            IF k = 0 THEN 0
            ELSE count[k - 1] + Cardinality({r \in swConfig.apiResources : sw[k].jobs[r] > 0})
    IN count[MaxSweeps]

\* refreshAllowedResources() whose requests go over the whole list of the
\* allowed namespaces
RefreshAllowedResourcesNoSlice(s, list) ==
    /\ sweeps[s].pc = "free"
    /\ \A q \in Sweeps : q < s => sweeps[q].pc # "free"
    /\ list \in swConfig.lists
    /\ nsList' = list
    /\ LET todo == {r \in swConfig.apiResources : cache[r] = "undefined"}
       IN IF list = <<>> \/ todo = {}
          THEN UNCHANGED sweeps
          ELSE /\ Cardinality(todo) <= ApiLimit
               /\ sweeps' = [sweeps EXCEPT ![s] =
                     [pc |-> "running", ns |-> list,
                      jobs |-> [r \in swConfig.apiResources |-> IF r \in todo THEN 1 ELSE 0],
                      stale |-> FALSE]]
    /\ UNCHANGED <<swConfig, cache, proxyVars, kcVars, clusterVars, managerVars, laterVars>>

\* refreshAllowedResources() from the return of getAllowedNamespaces() (list)
\* to the first await of getAllowedResources(): the namespaces are stored; with
\* no namespace or no unresolved resource the call ends here with no request,
\* else one request per unresolved resource starts with the canI() of the
\* first namespace
RefreshAllowedResources(s, list) ==
    /\ sweeps[s].pc = "free"
    /\ \A q \in Sweeps : q < s => sweeps[q].pc # "free"
    /\ list \in swConfig.lists
    /\ nsList' = list
    /\ LET todo == {r \in swConfig.apiResources : cache[r] = "undefined"}
       IN IF list = <<>> \/ todo = {}
          THEN UNCHANGED sweeps
          ELSE /\ Cardinality(todo) <= ApiLimit
               /\ sweeps' = [sweeps EXCEPT ![s] =
                     [pc |-> "running", ns |-> Slice(list, SweepNamespaces),
                      jobs |-> [r \in swConfig.apiResources |-> IF r \in todo THEN 1 ELSE 0],
                      stale |-> FALSE]]
    /\ UNCHANGED <<swConfig, cache, proxyVars, kcVars, clusterVars, managerVars, laterVars>>

\* The canI() that the request of resource r awaits settles. Its result is
\* stored; the request goes to the next namespace unless the resource is
\* recorded as allowed now. A canI() that rejects makes the call return from
\* its catch, the other requests still running; the last request to end ends
\* the call
SweepCanI(s, r) ==
    /\ r \in swConfig.apiResources
    /\ sweeps[s].pc \in {"running", "caught"}
    /\ sweeps[s].jobs[r] > 0
    /\ \E res \in CanIResults :
          LET idx == sweeps[s].jobs[r]
              st == IF res = "throws" THEN cache
                    ELSE [cache EXCEPT ![r] = IF res = "allowed" THEN "true" ELSE "false"]
              jobs == [sweeps[s].jobs EXCEPT
                         ![r] = IF res = "throws" \/ st[r] = "true" \/ idx = Len(sweeps[s].ns)
                                THEN 0 ELSE idx + 1]
              allDone == \A q \in swConfig.apiResources : jobs[q] = 0
              end == NoSweep
          IN /\ cache' = st
             /\ sweeps' = [sweeps EXCEPT ![s] =
                   IF allDone THEN end
                   ELSE [@ EXCEPT !.jobs = jobs,
                                  !.pc = IF res = "throws" THEN "caught" ELSE @]]
    /\ UNCHANGED <<swConfig, nsList, proxyVars, kcVars, clusterVars, managerVars, laterVars>>

\* disconnect(): the allowed namespaces and the permission cache are reset;
\* the calls in flight are not told
SweepDisconnect ==
    /\ nsList' = <<>>
    /\ cache' = [r \in swConfig.apiResources |-> "undefined"]
    /\ sweeps' = [s \in Sweeps |->
                    IF sweeps[s].pc = "free" THEN sweeps[s]
                    ELSE [sweeps[s] EXCEPT !.stale = TRUE]]
    /\ UNCHANGED <<swConfig, proxyVars, kcVars, clusterVars, managerVars, laterVars>>

NextSweeps ==
    \/ \E s \in Sweeps, list \in SweepLists : RefreshAllowedResources(s, list)
    \/ \E s \in Sweeps, r \in SweepResources : SweepCanI(s, r)
    \/ SweepDisconnect

-----------------------------------------------------------------------------
(* Cluster: getAllowedNamespaces(), call by call *)

\* Listings that one streak is followed over
MaxAttempts == 5

\* The namespaces the user may have set in the cluster settings
UserNamespaces == {<<>>, <<"ns1">>}

\* One listing that was tried: how api.listNamespace() settled, and the
\* namespace of the context at that time
Attempt(res, ns) == [res |-> res, namespace |-> ns]

\* The listing the counter counts: a 403 with no namespace to fall back to
Counted == Attempt("http403", "")

InitNamespaces ==
    /\ errorCount = 0
    /\ attempts = <<>>
    /\ lastCall = [returned |-> <<>>, broadcast |-> FALSE, rejected |-> FALSE]

\* getAllowedNamespaces(): one call from its start to its return. user: the
\* namespaces of the cluster settings; res, list: how api.listNamespace()
\* settles; ns: the namespace of the context in the proxy kubeconfig, read
\* when the listing has failed
GetAllowedNamespaces(user, res, list, ns) ==
    /\ res = "listed" \/ list = <<>>
    /\ IF user # <<>>
       THEN /\ lastCall' = [returned |-> user, broadcast |-> FALSE, rejected |-> FALSE]
            /\ UNCHANGED <<errorCount, attempts>>
       ELSE IF res = "throws"
       THEN /\ lastCall' = [returned |-> <<>>, broadcast |-> FALSE, rejected |-> TRUE]
            /\ UNCHANGED <<errorCount, attempts>>
       ELSE /\ errorCount = 0 \/ Len(attempts) < MaxAttempts
            /\ attempts' = IF errorCount = 0 THEN <<Attempt(res, ns)>>
                           ELSE Append(attempts, Attempt(res, ns))
            /\ IF res = "listed"
               THEN /\ errorCount' = 0
                    /\ lastCall' = [returned |-> list, broadcast |-> FALSE,
                                    rejected |-> FALSE]
               ELSE LET namespaceList == IF ns = "" THEN <<>> ELSE <<ns>>
                        count == IF Attempt(res, ns) = Counted
                                 THEN errorCount + 1 ELSE errorCount
                    IN /\ errorCount' = IF count > 3 THEN 0 ELSE count
                       /\ lastCall' = [returned |-> namespaceList,
                                       broadcast |-> (count > 3), rejected |-> FALSE]
    /\ UNCHANGED notNamespaces

NextNamespaces ==
    \E user \in UserNamespaces, res \in ListResults, list \in NamespaceLists,
       ns \in Namespaces : GetAllowedNamespaces(user, res, list, ns)

-----------------------------------------------------------------------------
(* Cluster: bindEvents(), unbindEvents() and the two interval timers *)

\* activate() calls of one Cluster that are in flight together
MaxActivations == 2

Activations == 1..MaxActivations

\* The disposers that bindEvents() registers (main process): the reaction on
\* getState(), the reaction on the prometheus preferences, the one that
\* clears the two timers
BoundDisposers == 3

InitBinding ==
    /\ cl = [eventDisposers |-> 0, refreshTimer |-> 0, refreshMetadataTimer |-> 0,
             disconnected |-> TRUE, accessible |-> FALSE, activated |-> FALSE]
    /\ activations = [a \in Activations |-> "free"]
    /\ timerLog = [last |-> "none", quiet |-> FALSE]

\* bindEvents(): two setInterval() and three disposers
bindEvents(c) ==
    [c EXCEPT !.eventDisposers = @ + BoundDisposers,
              !.refreshTimer = @ + 1,
              !.refreshMetadataTimer = @ + 1]

\* unbindEvents(): every disposer is called, the third clears the two timers
\* of its bindEvents() call
unbindEvents(c) ==
    [c EXCEPT !.eventDisposers = 0,
              !.refreshTimer = IF c.eventDisposers > 0 THEN 0 ELSE @,
              !.refreshMetadataTimer = IF c.eventDisposers > 0 THEN 0 ELSE @]

\* activate(force) that calls bindEvents() whether events are bound or not
ActivateCallRebinds(a, force) ==
    /\ activations[a] = "free"
    /\ \A b \in Activations : b < a => activations[b] # "free"
    /\ IF cl.activated /\ ~force
       THEN /\ timerLog' = [last |-> "pushState", quiet |-> FALSE]
            /\ UNCHANGED <<cl, activations>>
       ELSE /\ cl' = bindEvents(cl)
            /\ activations' = [activations EXCEPT ![a] =
                                  IF cl.disconnected \/ ~cl.accessible
                                  THEN "reconnect" ELSE "probe"]
            /\ timerLog' = [last |-> "activate", quiet |-> FALSE]
    /\ UNCHANGED notBinding

\* activate(force) up to its first await
ActivateCall(a, force) ==
    /\ activations[a] = "free"
    /\ \A b \in Activations : b < a => activations[b] # "free"
    /\ IF cl.activated /\ ~force
       THEN /\ timerLog' = [last |-> "pushState", quiet |-> FALSE]
            /\ UNCHANGED <<cl, activations>>
       ELSE /\ cl' = IF cl.eventDisposers = 0 THEN bindEvents(cl) ELSE cl
            /\ activations' = [activations EXCEPT ![a] =
                                  IF cl.disconnected \/ ~cl.accessible
                                  THEN "reconnect" ELSE "probe"]
            /\ timerLog' = [last |-> "activate", quiet |-> FALSE]
    /\ UNCHANGED notBinding

\* reconnect() of an activate() call: ensureServer() settles
ActivateReconnected(a) ==
    /\ activations[a] = "reconnect"
    /\ \E ok \in BOOLEAN :
          IF ok
          THEN /\ cl' = [cl EXCEPT !.disconnected = FALSE]
               /\ activations' = [activations EXCEPT ![a] = "probe"]
          ELSE /\ activations' = [activations EXCEPT ![a] = "free"]
               /\ UNCHANGED cl
    /\ timerLog' = [timerLog EXCEPT !.last = "reconnect"]
    /\ UNCHANGED notBinding

\* refreshConnectionStatus() of an activate() call settles: accessible or not.
\* An accessible cluster goes on to refreshAccessibility(), the other is activated
ActivateProbed(a) ==
    /\ activations[a] = "probe"
    /\ \E granted \in BOOLEAN :
          /\ cl' = [cl EXCEPT !.accessible = granted,
                              !.activated = IF granted THEN @ ELSE TRUE]
          /\ activations' = [activations EXCEPT ![a] =
                                IF granted THEN "accessibility" ELSE "free"]
    /\ timerLog' = [timerLog EXCEPT !.last = "probe"]
    /\ UNCHANGED notBinding

\* refreshAccessibility() of an activate() call settles: the cluster is
\* activated, or the call has rejected
ActivateAccessibility(a) ==
    /\ activations[a] = "accessibility"
    /\ \E ok \in BOOLEAN :
          cl' = [cl EXCEPT !.activated = IF ok THEN TRUE ELSE @]
    /\ activations' = [activations EXCEPT ![a] = "free"]
    /\ timerLog' = [timerLog EXCEPT !.last = "accessibility"]
    /\ UNCHANGED notBinding

\* disconnect() that resets the flags and leaves the events bound
DisconnectCallKeepsEvents ==
    /\ cl' = [cl EXCEPT !.disconnected = TRUE, !.accessible = FALSE,
                        !.activated = FALSE]
    /\ timerLog' = [last |-> "disconnect", quiet |-> TRUE]
    /\ UNCHANGED <<activations, notBinding>>

\* disconnect(): unbindEvents() and the resets; the calls in flight go on
DisconnectCall ==
    /\ cl' = [unbindEvents(cl) EXCEPT !.disconnected = TRUE, !.accessible = FALSE,
                                      !.activated = FALSE]
    /\ timerLog' = [last |-> "disconnect", quiet |-> TRUE]
    /\ UNCHANGED <<activations, notBinding>>

\* The 30 s timer fires: `!this.disconnected && this.refresh()`
RefreshTimerFires ==
    /\ cl.refreshTimer > 0
    /\ timerLog' = [timerLog EXCEPT !.last = IF cl.disconnected THEN "tick" ELSE "refresh"]
    /\ UNCHANGED <<cl, activations, notBinding>>

\* The 15 min timer fires: `!this.disconnected && this.refreshMetadata()`
RefreshMetadataTimerFires ==
    /\ cl.refreshMetadataTimer > 0
    /\ timerLog' = [timerLog EXCEPT !.last = IF cl.disconnected THEN "tick"
                                               ELSE "refreshMetadata"]
    /\ UNCHANGED <<cl, activations, notBinding>>

NextBinding ==
    \/ \E a \in Activations, force \in BOOLEAN : ActivateCall(a, force)
    \/ \E a \in Activations : ActivateReconnected(a)
    \/ \E a \in Activations : ActivateProbed(a)
    \/ \E a \in Activations : ActivateAccessibility(a)
    \/ DisconnectCall
    \/ RefreshTimerFires
    \/ RefreshMetadataTimerFires

-----------------------------------------------------------------------------
(* Cluster: refreshMetadata() *)

\* refreshMetadata() calls of one Cluster that are in flight together
MaxDetections == 2

Detections == 1..MaxDetections

\* Keys of ClusterMetadata and the values the detectors may find for them
MetadataKeys == {"version", "nodes"}
MetadataValues == {"1.20", "1.21"}

\* What detectForCluster() resolves with: an object that has the keys for
\* which a detector had an answer, and no others ("absent")
DetectorResults == [MetadataKeys -> MetadataValues \cup {"absent"}]

\* Object.assign(target, source): the own keys of the source overwrite
ObjectAssign(target, source) ==
    [k \in MetadataKeys |-> IF source[k] # "absent" THEN source[k] ELSE target[k]]

InitMetadata ==
    /\ metadata = [k \in MetadataKeys |-> "absent"]
    /\ detections = [d \in Detections |-> "free"]
    /\ detected = [k \in MetadataKeys |-> "absent"]

\* refreshMetadata() up to `await detectorRegistry.detectForCluster(this)`
RefreshMetadata(d) ==
    /\ detections[d] = "free"
    /\ \A e \in Detections : e < d => detections[e] # "free"
    /\ detections' = [detections EXCEPT ![d] = "detecting"]
    /\ UNCHANGED <<metadata, detected, notMetadata>>

\* refreshMetadata() that takes the result of the detectors for the metadata
DetectedReplaces(d, result) ==
    /\ detections[d] = "detecting"
    /\ metadata' = result
    /\ detected' = result
    /\ detections' = [detections EXCEPT ![d] = "free"]
    /\ UNCHANGED notMetadata

\* detectForCluster() resolves with result: refreshMetadata() reads
\* this.metadata and assigns the merge, with no await in between
Detected(d, result) ==
    /\ detections[d] = "detecting"
    /\ metadata' = ObjectAssign(metadata, result)
    /\ detected' = result
    /\ detections' = [detections EXCEPT ![d] = "free"]
    /\ UNCHANGED notMetadata

\* getConnectionStatus(): `this.metadata.version = versionData.value`
VersionDetected(v) ==
    /\ metadata' = [metadata EXCEPT !["version"] = v]
    /\ UNCHANGED <<detections, detected, notMetadata>>

NextMetadata ==
    \/ \E d \in Detections : RefreshMetadata(d)
    \/ \E d \in Detections, result \in DetectorResults : Detected(d, result)
    \/ \E v \in MetadataValues : VersionDetected(v)

-----------------------------------------------------------------------------
(* Singleton *)

\* Objects of Singleton subclasses that are constructed in one run
MaxCreates == 2

\* Subclasses of Singleton, by this.name
Classes == {"LensProtocolRouterMain", "WindowManager"}

\* Constructor arguments
Arguments == {"first", "second"}

NoInstance == [cls |-> "none", args |-> "none", serial |-> 0]

\* The object that `new c(args)` makes as the n-th object
Instance(c, args, n) == [cls |-> c, args |-> args, serial |-> n]

NoCall == [cls |-> "none", args |-> "none"]

\* How a call ended: it returned an instance, returned undefined, threw the
\* TypeError of Singleton, threw what the constructor threw, or is inside
\* the constructor
Ended(op, c, how, inst) == [op |-> op, cls |-> c, how |-> how, inst |-> inst]

InitSingleton ==
    /\ instances = [c \in Classes |-> NoInstance]
    /\ creating = ""
    /\ pending = NoCall
    /\ serial = 0
    /\ ret = Ended("none", "none", "undefined", NoInstance)

\* createInstance(...args) on class c, up to `new this(...args)`. It may be
\* called from the constructor of the class that is being created
CreateInstance(c, args) ==
    /\ IF instances[c] # NoInstance
       THEN /\ ret' = Ended("createInstance", c, "returned", instances[c])
            /\ UNCHANGED <<creating, pending>>
       ELSE IF creating # ""
       THEN /\ ret' = Ended("createInstance", c, "TypeError", NoInstance)
            /\ UNCHANGED <<creating, pending>>
       ELSE /\ serial < MaxCreates
            /\ creating' = c
            /\ pending' = [cls |-> c, args |-> args]
            /\ ret' = Ended("createInstance", c, "constructing", NoInstance)
    /\ UNCHANGED <<instances, serial, notSingleton>>

\* The constructor of the pending call returns: the Singleton constructor
\* found `creating` set; the instance is registered, the marker cleared
ConstructorReturns ==
    /\ pending # NoCall
    /\ LET inst == Instance(pending.cls, pending.args, serial + 1)
       IN /\ instances' = IF creating = "" THEN instances
                          ELSE [instances EXCEPT ![pending.cls] = inst]
          /\ ret' = IF creating = ""
                    THEN Ended("constructed", pending.cls, "TypeError", NoInstance)
                    ELSE Ended("constructed", pending.cls, "returned", inst)
    /\ serial' = serial + 1
    /\ creating' = ""
    /\ pending' = NoCall
    /\ UNCHANGED notSingleton

\* createInstance() with no `finally`: a constructor that throws leaves the
\* marker set
ConstructorThrowsKeepsMarker ==
    /\ pending # NoCall
    /\ pending' = NoCall
    /\ ret' = Ended("constructed", pending.cls, "threw", NoInstance)
    /\ UNCHANGED <<instances, creating, serial, notSingleton>>

\* The constructor of the pending call throws: nothing is registered, the
\* `finally` clears the marker, createInstance() throws
ConstructorThrows ==
    /\ pending # NoCall
    /\ pending' = NoCall
    /\ creating' = ""
    /\ ret' = Ended("constructed", pending.cls, "threw", NoInstance)
    /\ UNCHANGED <<instances, serial, notSingleton>>

\* getInstance(strict) on class c
GetInstance(c, strict) ==
    /\ LET op == IF strict THEN "getInstance" ELSE "getInstance(false)"
       IN ret' = IF instances[c] = NoInstance
                 THEN Ended(op, c, IF strict THEN "TypeError" ELSE "undefined", NoInstance)
                 ELSE Ended(op, c, "returned", instances[c])
    /\ UNCHANGED <<instances, creating, pending, serial, notSingleton>>

\* resetInstance() on class c
ResetInstance(c) ==
    /\ instances' = [instances EXCEPT ![c] = NoInstance]
    /\ ret' = Ended("resetInstance", c, "undefined", NoInstance)
    /\ UNCHANGED <<creating, pending, serial, notSingleton>>

\* `new c(args)` written out, not through createInstance(): the constructor
\* of Singleton throws unless a creation is under way
New(c, args) ==
    /\ IF creating = ""
       THEN /\ ret' = Ended("new", c, "TypeError", NoInstance)
            /\ UNCHANGED serial
       ELSE /\ serial < MaxCreates
            /\ serial' = serial + 1
            /\ ret' = Ended("new", c, "returned", Instance(c, args, serial + 1))
    /\ UNCHANGED <<instances, creating, pending, notSingleton>>

NextSingleton ==
    \/ \E c \in Classes, args \in Arguments : CreateInstance(c, args)
    \/ ConstructorReturns
    \/ ConstructorThrows
    \/ \E c \in Classes, strict \in BOOLEAN : GetInstance(c, strict)
    \/ \E c \in Classes : ResetInstance(c)
    \/ \E c \in Classes, args \in Arguments : New(c, args)

-----------------------------------------------------------------------------
(* isAllowedResource: the default-allow lookup of a resource kind *)

\* How many rows of the resource table the cluster knows
MaxResources == 4

\* Rows of the resource table of common/rbac: the key of apiResourceRecord is
\* the apiName, its value holds the kind and the group
ResourceTable ==
    << [apiName |-> "namespaces", kind |-> "Namespace", group |-> ""],
       [apiName |-> "pods", kind |-> "Pod", group |-> ""],
       [apiName |-> "nodes", kind |-> "Node", group |-> ""],
       [apiName |-> "deployments", kind |-> "Deployment", group |-> "apps"],
       [apiName |-> "secrets", kind |-> "Secret", group |-> ""],
       [apiName |-> "jobs", kind |-> "Job", group |-> "batch"] >>

\* apiResources: the rows of the table as a list, in the order of the record
apiResources == SubSeq(ResourceTable, 1, MaxResources)

\* apiResourceRecord: the own keys of the record and their values
apiResourceRecord ==
    [name \in {apiResources[i].apiName : i \in 1..Len(apiResources)} |->
        LET i == CHOOSE k \in 1..Len(apiResources) : apiResources[k].apiName = name
        IN [kind |-> apiResources[i].kind, group |-> apiResources[i].group]]

\* Names that every ordinary object inherits from Object.prototype
ObjectPrototype == {"constructor", "toString"}

\* `key in record`: true of an own key and of an inherited one
In(key, record) == key \in DOMAIN record \/ key \in ObjectPrototype

\* list.includes(x)
includes(list, x) == \E i \in 1..Len(list) : list[i] = x

\* What getAllowedResources() can return: the apiNames of the rows that passed,
\* in the order of the table
AllowedLists ==
    {LET passed(row) == row.apiName \in S
         rows == SelectSeq(apiResources, passed)
     IN [i \in 1..Len(rows) |-> rows[i].apiName] :
        S \in SUBSET {apiResources[i].apiName : i \in 1..Len(apiResources)}}

\* The kinds a caller asks about: apiNames and kinds of the table, names of no
\* resource at all, and names of members of Object.prototype
Kinds ==
    {ResourceTable[i].apiName : i \in 1..Len(ResourceTable)}
        \cup {ResourceTable[i].kind : i \in 1..Len(ResourceTable)}
        \cup {"CustomResourceDefinition"} \cup ObjectPrototype

NoQuestion == [kind |-> "", allowedResources |-> <<>>, result |-> TRUE]

\* isAllowedResource(kind) of a cluster whose allowedResources is `list`
isAllowedResource(kind, list) ==
    IF In(kind, apiResourceRecord)
    THEN includes(list, kind)
    ELSE LET found == {i \in 1..Len(apiResources) : apiResources[i].kind = kind}
         IN IF found # {}
            THEN includes(list, apiResources[CHOOSE i \in found :
                                                 \A j \in found : i <= j].apiName)
            ELSE TRUE

InitResources ==
    /\ allowed = <<>>
    /\ asked = NoQuestion

\* refreshAccessibility() assigns what getAllowedResources() resolved with
AllowedResourcesAssigned(list) ==
    /\ allowed' = list
    /\ UNCHANGED <<asked, notResources>>

\* One isAllowedResource(kind) call
IsAllowedResource(kind) ==
    /\ asked' = [kind |-> kind, allowedResources |-> allowed,
                 result |-> isAllowedResource(kind, allowed)]
    /\ UNCHANGED <<allowed, notResources>>

NextResources ==
    \/ \E list \in AllowedLists : AllowedResourcesAssigned(list)
    \/ \E kind \in Kinds : IsAllowedResource(kind)

-----------------------------------------------------------------------------
(* The components a specification does not run *)

\* A specification runs the calls of one component. The variables of the
\* components it does not run hold no object and never change
Unused == "unused"

UnusedProxy ==
    /\ proxyProcess = Unused
    /\ port = Unused
    /\ lastError = Unused
    /\ alive = Unused
    /\ listened = Unused
    /\ portWait = Unused
    /\ stdoutLog = Unused
    /\ spawned = Unused
    /\ runs = Unused
    /\ lastLog = Unused
    /\ threw = Unused
    /\ hist = Unused

UnusedKubeconfig ==
    /\ clusterId = Unused
    /\ ctxNamespace = Unused
    /\ tempFile = Unused
    /\ disk = Unused
    /\ gp = Unused
    /\ ul = Unused
    /\ serverRunning = Unused
    /\ firstContent = Unused

UnusedCluster ==
    /\ online = Unused
    /\ accessible = Unused
    /\ ready = Unused
    /\ disconnected = Unused
    /\ failureReason = Unused
    /\ isAdmin = Unused
    /\ isGlobalWatchEnabled = Unused
    /\ allowedNamespaces = Unused
    /\ allowedResources = Unused
    /\ accessibleNamespaces = Unused
    /\ activated = Unused
    /\ resourceAccessStatuses = Unused
    /\ getAllowedNamespacesErrorCount = Unused
    /\ eventDisposers = Unused
    /\ timers = Unused
    /\ tasks = Unused
    /\ pushed = Unused
    /\ mirror = Unused
    /\ fullRun = Unused
    /\ lastOp = Unused

UnusedManager ==
    /\ clusters = Unused
    /\ contextHandlers = Unused
    /\ kubeconfigManagers = Unused
    /\ thrown = Unused
    /\ constructs = Unused
    /\ sockets = Unused
    /\ lastResponse = Unused

UnusedSweeps ==
    /\ swConfig = Unused
    /\ cache = Unused
    /\ nsList = Unused
    /\ sweeps = Unused

UnusedNamespaces ==
    /\ errorCount = Unused
    /\ attempts = Unused
    /\ lastCall = Unused

UnusedBinding ==
    /\ cl = Unused
    /\ activations = Unused
    /\ timerLog = Unused

UnusedMetadata ==
    /\ metadata = Unused
    /\ detections = Unused
    /\ detected = Unused

UnusedSingleton ==
    /\ instances = Unused
    /\ creating = Unused
    /\ pending = Unused
    /\ serial = Unused
    /\ ret = Unused

UnusedResources ==
    /\ allowed = Unused
    /\ asked = Unused

-----------------------------------------------------------------------------
(* Specifications *)

\* One KubeAuthProxy under every interleaving of its calls and child events
InitSpecProxy ==
    LET proxy == InitProxy
        rest == UnusedKubeconfig /\ UnusedCluster /\ UnusedManager
                /\ UnusedSweeps /\ UnusedNamespaces /\ UnusedBinding
                /\ UnusedMetadata /\ UnusedSingleton
                /\ UnusedResources
    IN proxy /\ rest

SpecProxy == InitSpecProxy /\ [][NextProxy]_vars

\* One KubeconfigManager under every interleaving of its calls
InitSpecKubeconfig ==
    LET kubeconfig == InitKubeconfig
        rest == UnusedProxy /\ UnusedCluster /\ UnusedManager /\ UnusedSweeps
                /\ UnusedNamespaces /\ UnusedBinding /\ UnusedMetadata
                /\ UnusedSingleton
                /\ UnusedResources
    IN kubeconfig /\ rest

SpecKubeconfig == InitSpecKubeconfig /\ [][NextKubeconfig]_vars

\* One Cluster under every interleaving of its calls, its timers and the
\* answers of the API server
Init ==
    LET kubeconfig == InitKubeconfig /\ clusterId = "a" /\ ctxNamespace = ""
        cluster == InitCluster /\ accessibleNamespaces = <<>>
        rest == UnusedProxy /\ UnusedManager /\ UnusedSweeps /\ UnusedNamespaces
                /\ UnusedBinding /\ UnusedMetadata /\ UnusedSingleton
                /\ UnusedResources
    IN kubeconfig /\ cluster /\ rest

Next == NextCluster

Spec == Init /\ [][Next]_vars

\* One Cluster against an API server that may never answer: version detection
\* and the start of the proxy server settle in the end, each by its answer
\* or by its timeout; nothing in canI() and getAllowedNamespaces() makes a
\* request settle that the API server leaves unanswered
HungRemoteFairness ==
    \A t \in Tasks : WF_vars(Probed(t)) /\ WF_vars(Reconnected(t))

SpecHungRemote == Init /\ [][Next]_vars /\ HungRemoteFairness

\* The sweeps of one Cluster under every interleaving of the calls that start
\* them, the answers to their checks and disconnect()
InitSpecSweeps ==
    LET sweep == InitSweeps
        rest == UnusedProxy /\ UnusedKubeconfig /\ UnusedCluster
                /\ UnusedManager /\ UnusedNamespaces /\ UnusedBinding
                /\ UnusedMetadata /\ UnusedSingleton
                /\ UnusedResources
    IN sweep /\ rest

SpecSweeps == InitSpecSweeps /\ [][NextSweeps]_vars

\* The getAllowedNamespaces() calls of one Cluster, one after the other,
\* under every answer of the API server
InitSpecNamespaces ==
    LET namespaces == InitNamespaces
        rest == UnusedProxy /\ UnusedKubeconfig /\ UnusedCluster
                /\ UnusedManager /\ UnusedSweeps /\ UnusedBinding /\ UnusedMetadata
                /\ UnusedSingleton
                /\ UnusedResources
    IN namespaces /\ rest

SpecNamespaces == InitSpecNamespaces /\ [][NextNamespaces]_vars

\* The activate() and disconnect() calls of one Cluster in the main process,
\* overlapping, and the two interval timers of bindEvents()
InitSpecBinding ==
    LET binding == InitBinding
        rest == UnusedProxy /\ UnusedKubeconfig /\ UnusedCluster
                /\ UnusedManager /\ UnusedSweeps /\ UnusedNamespaces
                /\ UnusedMetadata /\ UnusedSingleton
                /\ UnusedResources
    IN binding /\ rest

SpecBinding == InitSpecBinding /\ [][NextBinding]_vars

\* The refreshMetadata() calls of one Cluster, overlapping, under every
\* result of the detectors
InitSpecMetadata ==
    LET detection == InitMetadata
        rest == UnusedProxy /\ UnusedKubeconfig /\ UnusedCluster
                /\ UnusedManager /\ UnusedSweeps /\ UnusedNamespaces
                /\ UnusedBinding /\ UnusedSingleton
                /\ UnusedResources
    IN detection /\ rest

SpecMetadata == InitSpecMetadata /\ [][NextMetadata]_vars

\* The static methods of Singleton on two subclasses, in every order, calls
\* from inside a constructor included
InitSpecSingleton ==
    LET singleton == InitSingleton
        rest == UnusedProxy /\ UnusedKubeconfig /\ UnusedCluster
                /\ UnusedManager /\ UnusedSweeps /\ UnusedNamespaces
                /\ UnusedBinding /\ UnusedMetadata
                /\ UnusedResources
    IN singleton /\ rest

SpecSingleton == InitSpecSingleton /\ [][NextSingleton]_vars

\* isAllowedResource() asked about every kind while refreshAccessibility()
\* assigns one list of allowed resources after another
InitSpecResources ==
    LET resources == InitResources
        rest == UnusedProxy /\ UnusedKubeconfig /\ UnusedCluster
                /\ UnusedManager /\ UnusedSweeps /\ UnusedNamespaces
                /\ UnusedBinding /\ UnusedMetadata /\ UnusedSingleton
    IN resources /\ rest

SpecResources == InitSpecResources /\ [][NextResources]_vars

\* The constructor calls of the clusters and the requests to the local proxy
InitSpecManager ==
    LET manager == InitManager
        rest == UnusedProxy /\ UnusedKubeconfig /\ UnusedCluster /\ UnusedSweeps
                /\ UnusedNamespaces /\ UnusedBinding /\ UnusedMetadata
                /\ UnusedSingleton
                /\ UnusedResources
    IN manager /\ rest

SpecManager == InitSpecManager /\ [][NextManager]_vars

\* One Cluster whose user has named the accessible namespaces, under every
\* outcome of version detection
InitSpecConnection ==
    LET kubeconfig == InitKubeconfig /\ clusterId = "a" /\ ctxNamespace = "dev"
        cluster == InitCluster /\ accessibleNamespaces = <<"ns1">>
        rest == UnusedProxy /\ UnusedManager /\ UnusedSweeps /\ UnusedNamespaces
                /\ UnusedBinding /\ UnusedMetadata /\ UnusedSingleton
                /\ UnusedResources
    IN kubeconfig /\ cluster /\ rest

NextConnection ==
    \/ \E t \in Tasks, force \in BOOLEAN : Activate(t, force)
    \/ \E t \in Tasks : Reconnected(t)
    \/ \E t \in Tasks : Refresh(t)
    \/ \E t \in Tasks : RefreshTimer(t)
    \/ \E t \in Tasks : ProbedAny(t)
    \/ \E t \in Tasks : AdminProbed(t)
    \/ \E t \in Tasks : WatchProbed(t)
    \/ \E t \in Tasks, r \in ApiResources : CanIReturned(t, r)
    \/ Disconnect
    \/ SetState

SpecConnection == InitSpecConnection /\ [][NextConnection]_vars


-----------------------------------------------------------------------------
(* KubeAuthProxy: properties *)

\* C5: under every interleaving of run() and exit() calls at most one child
\* process of the proxy is alive at any time.
C5_AtMostOneChildAlive == Cardinality(alive) <= 1

\* C6 as stated: after exit(), and after a second exit() in a row, nothing was
\* thrown and the process handle is null.
C6_HandleNullAfterExit ==
    hist \in {"exit", "exit2"} => (~threw /\ proxyProcess = Null)

\* C6 amended: after exit(), and after a second exit() in a row, nothing was
\* thrown and the handle holds no process: it is null when a child had been
\* spawned before and still undefined, as declared, when none ever was.
C6_NoProcessAfterExit ==
    hist \in {"exit", "exit2"} =>
        /\ ~threw
        /\ ~Truthy(proxyProcess)
        /\ proxyProcess = (IF spawned > 0 THEN Null ELSE Undefined)

C6_Witness == hist = "exit2" /\ proxyProcess = Null /\ alive = {}

\* C7: right after getPortFrom has timed out and run() has rejected, the child
\* that run() spawned is not alive and the proxy holds no process handle.
C7_BannerTimeoutLeavesNothing ==
    \A r \in Runs :
        (hist = "bannerTimeout" /\ runs[r].why = "bannerTimeout") =>
            (runs[r].proc \notin alive /\ ~Truthy(proxyProcess))

\* C8: an "exit" or "error" event of the held child leaves the handle null, the
\* child without listeners and a log broadcast behind, throws nothing, and a
\* run() called after it goes on to spawn instead of returning early.
C8_ChildEventCleansUp ==
    /\ [][\A p \in Pids :
            (proxyProcess = Proc(p) /\ (ChildExit(p) \/ ChildError(p))) =>
                /\ proxyProcess' = Null
                /\ p \notin (alive' \cup listened' \cup portWait' \cup stdoutLog')
                /\ lastLog' \in {"exit", "error"}
                /\ ~threw']_vars
    /\ [][\A r \in Runs :
            (hist \in {"childExit", "childError"} /\ RunStart(r)) =>
                runs'[r].pc = "kubectl"]_vars

C8_Witness ==
    /\ hist = "spawn"
    /\ lastLog = "exit"
    /\ \E r \in Runs : runs[r].pc = "banner" /\ runs[r].proc = 2
    /\ alive = {2}
    /\ proxyProcess = Proc(2)

-----------------------------------------------------------------------------
(* KubeconfigManager: properties *)

\* C9: a getPath() called after an unlink() has returned throws "kubeconfig is
\* already unlinked", whatever the state unlink() was called in.
C9_GetPathThrowsAfterUnlink ==
    \A c \in GetPaths : gp[c].afterUnlink => gp[c].pc = "threw"

-----------------------------------------------------------------------------
(* Cluster: properties *)

\* C1: in every reachable state disconnected = true implies online = false,
\* accessible = false and ready = false.
C1_DisconnectedForcesOffline ==
    disconnected => (~online /\ ~accessible /\ ~ready)

\* C2: right after disconnect() has returned getState() reports online = false,
\* accessible = false, ready = false and disconnected = true.
C2_StateAfterDisconnect ==
    lastOp = "disconnect" =>
        /\ getState.online = FALSE
        /\ getState.accessible = FALSE
        /\ getState.ready = FALSE
        /\ getState.disconnected = TRUE

C2_Witness ==
    /\ lastOp = "disconnect"
    /\ fullRun
    /\ allowedResources = {"pods"}
    /\ pushed = [ready |-> FALSE]
    /\ mirror = [ready |-> TRUE]

\* C3: in every reachable state ready = true implies accessible = true.
C3_ReadyImpliesAccessible == ready => accessible

C11_ForbiddenOnThirdFailure ==
    [][/\ (getAllowedNamespacesErrorCount = 2 /\ getAllowedNamespacesErrorCount' = 3)
            => lastOp' = "forbidden"
       /\ getAllowedNamespacesErrorCount = 3 => lastOp' # "forbidden"]_vars

-----------------------------------------------------------------------------
(* Cluster: the connection probe *)

\* C13: when version detection fails with a status code in 400..499,
\* refreshConnectionStatus() settles with AccessDenied, failureReason =
\* "Invalid credentials", online = true and accessible = false.
C13_Http4xxIsAccessDenied ==
    [][\A t \in Tasks : (tasks[t].pc = "probe" /\ tasks'[t].pc # "probe") =>
       \A d \in VersionDetections :
          (/\ ~d.answered
           /\ d.statusCode >= 400 /\ d.statusCode <= 499
           /\ refreshConnectionStatus(t, ProbeResult(d))) =>
              /\ ConnectionStatus(ProbeResult(d)).status = AccessDenied
              /\ failureReason' = "Invalid credentials"
              /\ online' = TRUE
              /\ accessible' = FALSE
              /\ lastOp' # "rejected"]_vars

C13_Witness ==
    /\ failureReason = "Invalid credentials"
    /\ online /\ ~accessible /\ ~disconnected
    /\ \A t \in Tasks : tasks[t].pc = "free"

C15_AccessDeniedOnly4xx ==
    [][\A t \in Tasks : (tasks[t].pc = "probe" /\ tasks'[t].pc # "probe") =>
       \A d \in VersionDetections :
          (~d.answered /\ refreshConnectionStatus(t, ProbeResult(d))) =>
              IF d.statusCode >= 400 /\ d.statusCode <= 499
              THEN online' /\ ~accessible'
              ELSE ~online' /\ ~accessible']_vars

\* C15 amended: the status is AccessDenied (online = true, accessible =
\* false) for an error with a status code in 400..499 and for an error without
\* status code whose failed is true and whose timedOut is not ("Failed to
\* fetch credentials"); every other failure gives Offline, online = false and
\* accessible = false.
C15_AccessDenied4xxOrFailed ==
    [][\A t \in Tasks : (tasks[t].pc = "probe" /\ tasks'[t].pc # "probe") =>
       \A d \in VersionDetections :
          (~d.answered /\ refreshConnectionStatus(t, ProbeResult(d))) =>
              IF \/ d.statusCode >= 400 /\ d.statusCode <= 499
                 \/ d.statusCode = 0 /\ d.failed /\ ~d.timedOut
              THEN /\ ConnectionStatus(ProbeResult(d)).status = AccessDenied
                   /\ online' /\ ~accessible'
                   /\ failureReason' = IF d.statusCode = 0
                                       THEN "Failed to fetch credentials"
                                       ELSE "Invalid credentials"
              ELSE /\ ConnectionStatus(ProbeResult(d)).status = Offline
                   /\ ~online' /\ ~accessible']_vars

C15_Witness ==
    /\ failureReason = "Failed to fetch credentials"
    /\ online /\ ~accessible /\ ~disconnected
    /\ \A t \in Tasks : tasks[t].pc = "free"

-----------------------------------------------------------------------------
(* Cluster: the sweep of the allowed resources *)

\* C17: when getAllowedNamespaces() has returned an empty list, the sweep
\* that follows ends at once with no allowed resource: no canI() job is
\* started for it, whatever earlier sweeps recorded as allowed
C17_EmptyNamespacesNoSweep ==
    [][\A t \in Tasks :
          (/\ tasks[t].pc \in {"watch", "namespaces"}
           /\ tasks'[t].pc \notin {"watch", "namespaces"}
           /\ lastOp' # "rejected"
           /\ allowedNamespaces' = <<>>)
          => (/\ allowedResources' = {}
              /\ tasks'[t] = FreeTask
              /\ resourceAccessStatuses' = resourceAccessStatuses)]_vars

\* C17 witness: a run ended on an empty list of namespaces (a counted 403 of
\* the listing) while an earlier sweep had recorded an allowed resource
C17_Witness ==
    /\ getAllowedNamespacesErrorCount > 0
    /\ allowedNamespaces = <<>>
    /\ allowedResources = {}
    /\ ready /\ ~disconnected
    /\ \E r \in ApiResources : resourceAccessStatuses[r] = "true"
    /\ \A t \in Tasks : tasks[t].pc = "free"

-----------------------------------------------------------------------------
(* Cluster: authorization checks and the end of a call *)

\* C19: canI() fails closed: the canI() of isClusterAdmin() and of
\* canUseWatchApi() settles with true or false whatever happens, so the run
\* awaiting it goes on to its next step and never ends in a rejection there
C19_CanINeverRejects ==
    [][\A t \in Tasks :
          (tasks[t].pc \in {"admin", "watch"} /\ tasks'[t].pc # tasks[t].pc)
          => (/\ lastOp' # "rejected"
              /\ tasks[t].pc = "admin" => tasks'[t].pc = "watch")]_vars

\* C20: every activate() and refresh() ends with pushState(), whatever its
\* probes ended in: no call ends in a rejection, which skips the pushState()
\* that is the last statement of the call
C20_EveryCallEndsWithBroadcast ==
    [][\A t \in Tasks :
          (tasks[t].pc \notin {"free", "zombie"} /\ tasks'[t].pc \in {"free", "zombie"})
          => (lastOp' # "rejected" /\ pushed' = [ready |-> ready'])]_vars

-----------------------------------------------------------------------------
(* Cluster constructor and the routing of local requests *)

\* C12: a constructor call for a context that the kubeconfig does not have
\* throws the validation error and has created no Cluster, no ContextHandler
\* and no KubeconfigManager, and has started no proxy
C12_InvalidContextThrowsFirst ==
    [][constructs' # constructs =>
         \A id \in ClusterIds, contextName \in ContextNames, config \in KubeConfigs,
            ipcMain \in BOOLEAN :
             (contextName \notin config /\ Construct(id, contextName, config, ipcMain))
             => (/\ thrown' = "validationError"
                 /\ UNCHANGED <<clusters, contextHandlers, kubeconfigManagers>>
                 /\ UNCHANGED <<proxyVars, serverRunning>>)]_vars

\* C12 witness: a constructor call has thrown the validation error while
\* another cluster was constructed with its ContextHandler
C12_Witness ==
    /\ thrown = "validationError"
    /\ clusters = {"a"}
    /\ contextHandlers = {"a"}
    /\ kubeconfigManagers = {"a"}

\* C18: a request that names a cluster id no cluster has is failed: a plain
\* request is answered with an error and forwarded nowhere, a WebSocket
\* upgrade is rejected, with no shell session created or opened
C18_UnknownIdFails ==
    [][/\ \A k \in Sockets :
            (/\ sockets[k].state = "upgraded"
             /\ sockets'[k].state # "upgraded"
             /\ getClusterForRequest(sockets[k].id) = "undefined")
            => (/\ sockets'[k].state = "rejected"
                /\ sockets'[k].shell = "none"
                /\ ~sockets'[k].opened)
       /\ \A id \in RequestIds :
            (lastResponse'.id = id /\ lastResponse' # lastResponse /\ id \notin clusters)
            => (lastResponse'.error /\ lastResponse'.forwardedTo = "none")]_vars

-----------------------------------------------------------------------------
(* Cluster: broadcasts and the frame of activate() *)

\* C21: a "cluster:state" broadcast sent by a step of a refresh() carries the
\* state the refresh ends with: the reaction on getState() sends nothing
\* while the refresh has steps left
C21_BroadcastOnlyWhenRefreshDone ==
    [][\A t \in Tasks :
          (/\ tasks[t].kind = "refresh"
           /\ tasks'[t] # tasks[t]
           /\ eventDisposers > 0
           /\ getState' # getState)
          => tasks'[t].pc \in {"free", "zombie"}]_vars

\* C22: activate(false) of an activated cluster only broadcasts the state it
\* finds: no field of the state, no timer, no event disposer, no call in
\* flight, nothing of the proxy and of its kubeconfig changes
C22_ActivateActivatedOnlyBroadcasts ==
    [][activated =>
         \A t \in Tasks :
            Activate(t, FALSE)
            => (/\ pushed' = [ready |-> ready]
                /\ UNCHANGED <<stateVars, activated, eventDisposers, timers, tasks,
                               resourceAccessStatuses, getAllowedNamespacesErrorCount,
                               serverRunning, proxyVars, kcFiles>>)]_vars

\* C22 witness: activate() of an activated, ready cluster has returned
C22_Witness ==
    /\ lastOp = "rebroadcast"
    /\ activated /\ ready /\ online /\ accessible
    /\ pushed = [ready |-> TRUE]
    /\ timers > 0

-----------------------------------------------------------------------------
(* Cluster: disconnect() and the order of the probes *)

\* C25: when disconnect() has returned, every derived field is at its
\* baseline: online, accessible, ready, isAdmin and isGlobalWatchEnabled are
\* false, allowedNamespaces and allowedResources are empty, the permission
\* cache is empty and the proxy server is stopped
C25_DisconnectResetsAll ==
    lastOp = "disconnect" =>
        /\ ~online /\ ~accessible /\ ~ready
        /\ ~isAdmin /\ ~isGlobalWatchEnabled
        /\ allowedNamespaces = <<>>
        /\ allowedResources = {}
        /\ \A r \in ApiResources : resourceAccessStatuses[r] = "undefined"
        /\ ~serverRunning

\* C28: in a run of refreshAccessibility() the admin probe comes before the
\* watch probe, both before the discovery of the namespaces, and the sweep
\* starts in the step that stores the discovered namespaces: its checks run
\* over the first namespaces of the list that was stored
C28_NamespacesBeforeSweep ==
    [][\A t \in Tasks :
          tasks'[t].pc # tasks[t].pc =>
             /\ tasks'[t].pc = "watch" => tasks[t].pc = "admin"
             /\ tasks'[t].pc = "namespaces" => tasks[t].pc = "watch"
             /\ tasks'[t].pc = "sweep" =>
                   /\ tasks[t].pc \in {"watch", "namespaces"}
                   /\ tasks[t].pc = "watch" => accessibleNamespaces # <<>>
                   /\ allowedNamespaces' # <<>>
                   /\ tasks'[t].ns = Slice(allowedNamespaces', SweepNamespaces)]_vars

\* C28 witness: a sweep runs over the namespaces that the listing returned,
\* the admin and the watch probe answered
C28_Witness ==
    \E t \in Tasks :
       /\ tasks[t].pc = "sweep"
       /\ tasks[t].ns = <<"ns1", "ns2">>
       /\ allowedNamespaces = <<"ns1", "ns2">>
       /\ isAdmin /\ isGlobalWatchEnabled

-----------------------------------------------------------------------------
(* KubeconfigManager: the content of the proxy kubeconfig *)

\* C26: a proxy kubeconfig on disk is the file of this cluster, has one
\* cluster, one user and one context, its user is "proxy" and has no field
\* but the name, its server is the local proxy's address followed by the
\* cluster id with skipTLSVerify unset, its context has the namespace of the
\* original context and the user "proxy", and its mode is 0600
C26_ProxyKubeconfigShape ==
    \A p \in Paths :
       disk[p] # NoFile =>
          /\ p = TempFilePath(clusterId)
          /\ disk[p].mode = "0600"
          /\ Len(disk[p].clusters) = 1 /\ Len(disk[p].users) = 1 /\ Len(disk[p].contexts) = 1
          /\ DOMAIN disk[p].users[1] = {"name"}
          /\ disk[p].users[1].name = "proxy"
          /\ disk[p].clusters[1].server = <<"http://127.0.0.1", LensProxyPort, clusterId>>
          /\ disk[p].clusters[1].skipTLSVerify = "undefined"
          /\ disk[p].contexts[1].user = "proxy"
          /\ disk[p].contexts[1].namespace = ctxNamespace

\* C26 witness: the proxy kubeconfig of cluster "b", whose context has the
\* namespace "dev", is on disk and getPath() has returned its path
C26_Witness ==
    /\ clusterId = "b"
    /\ ctxNamespace = "dev"
    /\ disk[TempFilePath("b")] # NoFile
    /\ disk[TempFilePath("b")].contexts[1].namespace = "dev"
    /\ \E c \in GetPaths : gp[c].result = TempFilePath("b")

-----------------------------------------------------------------------------
(* Cluster: a remote that never answers *)

\* C27: every refresh() settles in the end, also when the API server leaves
\* a request unanswered: a refresh() that is in flight comes to its end
C27_RefreshSettles ==
    \A t \in Tasks :
       (tasks[t].kind = "refresh" /\ tasks[t].pc \notin {"free", "zombie"})
          ~> (tasks[t].pc \in {"free", "zombie"})

-----------------------------------------------------------------------------
(* Cluster: overlapping sweeps *)

\* C23: at any time at most 5 checks of the sweeps of one Cluster are in
\* flight, however many refreshAllowedResources() calls overlap
C23_AtMostFiveInFlight == InFlight(sweeps) <= ApiLimit

\* C24: between two disconnect() calls a resource that the cache records as
\* allowed stays recorded as allowed, and no check is started for it
C24_AllowedStaysAllowed ==
    [][\/ SweepDisconnect
       \/ \A r \in SweepResources :
             (r \in swConfig.apiResources /\ cache[r] = "true")
             => (/\ cache'[r] = "true"
                 /\ \A s \in Sweeps :
                       sweeps'[s].jobs[r] \in {0, sweeps[s].jobs[r]})]_vars

\* C29: a call that was in flight when disconnect() cleared the cache
\* stores no result of its checks in the cache afterwards and does not
\* change allowedNamespaces
C29_StaleSweepWritesNothing ==
    [][\A s \in Sweeps :
          (sweeps[s].stale /\ sweeps'[s] # sweeps[s]) => UNCHANGED <<cache, nsList>>]_vars

\* C30: a check is started only for a resource with no cached result when
\* its sweep starts, and then for the first namespace; the next check of the
\* resource is for the next namespace and starts only when the one before was
\* denied; every check is for one of the first 10 allowed namespaces
C30_OneNamespaceAtATime ==
    [][\A s \in Sweeps, r \in SweepResources :
          (/\ r \in swConfig.apiResources
           /\ sweeps'[s].jobs[r] # sweeps[s].jobs[r]
           /\ sweeps'[s].jobs[r] > 0)
          => LET k == sweeps'[s].jobs[r]
             IN /\ k <= SweepNamespaces
                /\ k <= Len(sweeps'[s].ns)
                /\ sweeps'[s].ns[k] = k
                /\ sweeps'[s].ns = Slice(IF sweeps[s].pc = "free" THEN nsList'
                                         ELSE sweeps[s].ns, SweepNamespaces)
                /\ IF sweeps[s].jobs[r] = 0
                   THEN /\ k = 1
                        /\ sweeps[s].pc = "free"
                        /\ cache[r] = "undefined"
                   ELSE /\ k = sweeps[s].jobs[r] + 1
                        /\ cache'[r] = "false"]_vars

\* C30 witness: the check of the 10th namespace is in flight in a cluster
\* that has more allowed namespaces than that
C30_Witness ==
    /\ swConfig = OneResource
    /\ Len(nsList) > SweepNamespaces
    /\ \E s \in Sweeps : sweeps[s].jobs["pods"] = SweepNamespaces /\ ~sweeps[s].stale

C35_ReconnectClearsAfterEnsure ==
    [][\A t \in Tasks :
          /\ (tasks[t].pc # "reconnect" /\ tasks'[t].pc = "reconnect")
                => (~serverRunning' /\ UNCHANGED disconnected)
          /\ (tasks[t].pc = "reconnect" /\ tasks'[t].pc # "reconnect")
                => IF tasks'[t].pc = "probe"
                   THEN serverRunning' /\ ~disconnected'
                   ELSE /\ lastOp' = "rejected"
                        /\ UNCHANGED <<disconnected, online, accessible, ready>>]_vars

\* ensureServer() has failed for the activate() of a disconnected cluster: the
\* call has rejected, the server is stopped, the cluster is disconnected still
C35_Witness ==
    /\ lastOp = "rejected"
    /\ disconnected
    /\ ~serverRunning
    /\ eventDisposers > 0
    /\ \A t \in Tasks : tasks[t].pc = "free"

\* C36: once exit() has let go of the child it held, that child is dead and
\* none of its listeners is attached; a dead child never gets a listener
\* again; and whatever writes lastError or the port is a living child with the
\* listener in question attached, so never the child that exit() terminated
C36_TerminatedChildIsSilent ==
    [][\A p \in Pids :
          /\ (proxyProcess = Proc(p) /\ ~Truthy(proxyProcess'))
                => p \notin (alive' \cup listened' \cup portWait' \cup stdoutLog')
          /\ (p <= spawned /\ p \notin alive)
                => /\ p \in listened' => p \in listened
                   /\ p \in portWait' => p \in portWait
                   /\ p \in stdoutLog' => p \in stdoutLog
          /\ (lastError' = p /\ lastError # p) => p \in alive \cap listened
          /\ (port' = p /\ port # p) => p \in alive \cap portWait]_vars

\* exit() has terminated a child, and a later run() holds a living one
C36_Witness ==
    \E p \in Pids :
        /\ p <= spawned
        /\ p \notin alive \cup listened
        /\ Truthy(proxyProcess)
        /\ proxyProcess.pid # p
        /\ proxyProcess.pid \in alive \cap listened
        /\ hist \in {"spawn", "banner", "used", "stderr"}

\* C37: whenever a getPath() call resolves, its value is a set path and the
\* proxy kubeconfig file is at that path at the time of the return
C37_GetPathResolvesToExistingFile ==
    [][\A c \in GetPaths :
          (gp[c].pc # "done" /\ gp'[c].pc = "done")
             => /\ ~Unset(gp'[c].result)
                /\ disk'[gp'[c].result] # NoFile]_vars

-----------------------------------------------------------------------------
(* Cluster, getAllowedNamespaces(): properties *)

\* C31: the "namespace listing forbidden" broadcast is sent only when the
\* listings tried since the streak began were all HTTP-403 failures with
\* an empty fallback, with no other attempt in between
C31_ForbiddenOnlyAfterConsecutive403 ==
    lastCall.broadcast => \A i \in 1..Len(attempts) : attempts[i] = Counted

-----------------------------------------------------------------------------
(* Cluster, events and timers: properties *)

-----------------------------------------------------------------------------
(* Cluster, refreshMetadata(): properties *)

\* C38: when a refreshMetadata() call merges, every key for which the
\* detectors returned no answer keeps the value it had, and every key for
\* which they returned a value has that value
C38_MetadataMerged ==
    [][(\E d \in Detections : detections[d] = "detecting" /\ detections'[d] = "free")
          => \A k \in MetadataKeys :
                metadata'[k] = IF detected'[k] = "absent" THEN metadata[k]
                               ELSE detected'[k]]_vars

\* The last merge had an answer for one key and none for another that was
\* known before: the known value is there still, next to the new one
C38_Witness ==
    \E k, l \in MetadataKeys :
        /\ detected[k] = "absent"
        /\ metadata[k] # "absent"
        /\ detected[l] # "absent"
        /\ metadata[l] = detected[l]
        /\ \A d \in Detections : detections[d] = "free"

-----------------------------------------------------------------------------
(* Singleton: properties *)

\* C40: createInstance() returns the registered instance, whatever its
\* arguments, when there is one, and constructs with its own arguments when
\* there is none; the instance it registers is the one it constructed;
\* getInstance() throws only for strict lookups of a class with no instance;
\* `new` with no creation under way throws; and the marker is set exactly
\* while a createInstance() call is inside the constructor
C40_SingletonProtocol ==
    [][/\ (ret'.op = "createInstance" /\ instances[ret'.cls] # NoInstance)
             => /\ ret'.how = "returned"
                /\ ret'.inst = instances[ret'.cls]
                /\ UNCHANGED <<instances, creating, pending, serial>>
       /\ (ret'.op = "createInstance" /\ ret'.how = "constructing")
             => /\ instances[ret'.cls] = NoInstance
                /\ pending'.cls = ret'.cls
                /\ UNCHANGED instances
       /\ (ret'.op = "constructed" /\ ret'.how = "returned")
             => /\ instances'[ret'.cls] = ret'.inst
                /\ ret'.inst = Instance(pending.cls, pending.args, serial')
                /\ \A c \in Classes \ {ret'.cls} : instances'[c] = instances[c]
       /\ (ret'.op \in {"getInstance", "getInstance(false)"})
             => /\ ret'.how = IF instances[ret'.cls] # NoInstance THEN "returned"
                              ELSE IF ret'.op = "getInstance" THEN "TypeError"
                              ELSE "undefined"
                /\ ret'.inst = instances[ret'.cls]
                /\ UNCHANGED <<instances, creating, pending, serial>>
       /\ (ret'.op = "new" /\ pending = NoCall) => ret'.how = "TypeError"
       /\ (pending' = NoCall) = (creating' = "")
       /\ \A c \in Classes : instances'[c] # NoInstance => instances'[c].cls = c]_vars

\* After a resetInstance() a second instance was constructed and registered;
\* a later createInstance() call has returned it, whatever its arguments
C40_Witness ==
    /\ ret.op = "createInstance"
    /\ ret.how = "returned"
    /\ ret.inst = instances[ret.cls]
    /\ ret.inst.args = "first"
    /\ ret.inst.serial = MaxCreates
    /\ creating = ""

\* C39: isAllowedResource(kind) returns true for every kind that is not a
\* known API resource; for a known resource, matched by its apiName or by its
\* kind, it returns true exactly when that resource's apiName is in the
\* allowedResources list of the moment of the call
C39_DefaultAllowElseListed ==
    asked # NoQuestion =>
        LET known == {i \in 1..Len(apiResources) :
                        \/ apiResources[i].apiName = asked.kind
                        \/ apiResources[i].kind = asked.kind}
        IN IF known = {}
           THEN asked.result = TRUE
           ELSE \A i \in known :
                    asked.result = includes(asked.allowedResources,
                                            apiResources[i].apiName)

=============================================================================
